---- MODULE Spec2Model ----
(***************************************************************************)
(* Control-flow structuring back-end of fcd (x86Emulator/program_output.cpp *)
(* and x86Emulator/ast_grapher.cpp): the AST grapher, the region predicate, *)
(* the reaching conditions, the sum-of-products simplifier, the AST         *)
(* simplifier and the driver AstBackEnd::runOnModule / runOnFunction.       *)
(***************************************************************************)
EXTENDS Integers, Sequences, FiniteSets, TLC

(***************************************************************************)
(* Bounds of the model.                                                     *)
(***************************************************************************)
\* Functions of one to MaxBlocks basic blocks are enumerated exhaustively.
MaxBlocks == 3
\* Every block holds 0..MaxInst instructions before its terminator.
MaxInst == 1

\* The null pointer (BasicBlock*, Statement*, AstGraphNode*, DomTreeNode*).
Null == 0
\* The post-dominator tree's virtual root, whose getBlock() is null.
VirtualRoot == -1

(***************************************************************************)
(* The input IR: a function is its number of blocks, each block's           *)
(* terminator and the number of instructions before the terminator.         *)
(* Block 1 is the entry block; the condition of the conditional branch of   *)
(* block b is the IR value b.                                               *)
(***************************************************************************)
Range(s) == {s[i] : i \in DOMAIN s}

Terminators(n) ==
    {<<"ret">>}
        \cup {<<"br", s>> : s \in 2..n}
        \cup {<<"cbr", s, t>> : s \in 2..n, t \in 2..n}

\* CFG successors of a block, in successor order.
successors(f, b) ==
    LET t == f.term[b]
    IN  IF t[1] = "br" THEN <<t[2]>>
        ELSE IF t[1] \in {"cbr", "switch"} THEN <<t[2], t[3]>>
        ELSE <<>>

succSet(f, b) == Range(successors(f, b))

Blocks(f) == 1..f.n

\* The statements addBasicBlock makes for block b: every instruction that is
\* neither a branch nor a switch, so a ret terminator counts.
numStatements(f, b) == f.ninst + (IF f.term[b][1] = "ret" THEN 1 ELSE 0)

\* Blocks reachable from the blocks of `from` without entering `avoid`.
RECURSIVE reachClosure(_, _, _)
reachClosure(f, from, avoid) ==
    LET next == {s \in UNION {succSet(f, b) : b \in from} : s \notin avoid} \ from
    IN  IF next = {} THEN from ELSE reachClosure(f, from \cup next, avoid)

reachable(f) == reachClosure(f, {1}, {})

\* Depth-first pre-order from the entry block, successors in order.
RECURSIVE preOrderFrom(_, _, _)
RECURSIVE preOrderSuccs(_, _, _, _)
preOrderFrom(f, b, seen) ==
    IF b \in Range(seen) THEN seen
    ELSE preOrderSuccs(f, successors(f, b), 1, Append(seen, b))
preOrderSuccs(f, succs, i, seen) ==
    IF i > Len(succs) THEN seen
    ELSE preOrderSuccs(f, succs, i + 1, preOrderFrom(f, succs[i], seen))

\* Blocks are named in the order a depth-first walk discovers them; a function
\* that differs only in the names of its blocks is the same input.
isCanonical(f) ==
    LET pre == preOrderFrom(f, 1, <<>>)
    IN  \A i \in 1..Len(pre) : pre[i] = i

hasReturn(f) == \E b \in Blocks(f) : f.term[b][1] = "ret"

GeneratedFunctions ==
    {f \in UNION {[n : {n}, term : [1..n -> Terminators(n)], ninst : 0..MaxInst] :
                    n \in 1..MaxBlocks} :
        isCanonical(f) /\ hasReturn(f)}

\* Functions of four and five blocks: the specification's scenarios, a cycle
\* that is entered at both of its blocks, and two blocks under one guard.
ScenarioTerms ==
    { \* diamond: A: br c, T, E; T -> J; E -> J; J: ret
      <<<<"cbr", 2, 3>>, <<"br", 4>>, <<"br", 4>>, <<"ret">>>>,
      \* nested if: A: br c1, B, J; B: br c2, C, J; C -> J
      <<<<"cbr", 2, 4>>, <<"cbr", 3, 4>>, <<"br", 4>>, <<"ret">>>>,
      \* do-while: P -> A; A -> B; B: br c, A, X
      <<<<"br", 2>>, <<"br", 3>>, <<"cbr", 2, 4>>, <<"ret">>>>,
      \* early exit: P -> A; A: br c1, B, X; B: br c2, A, X
      <<<<"br", 2>>, <<"cbr", 3, 4>>, <<"cbr", 2, 4>>, <<"ret">>>>,
      \* overlap: A: br c1, B, C; B: br c2, C, X; C -> X
      <<<<"cbr", 2, 3>>, <<"cbr", 3, 4>>, <<"br", 4>>, <<"ret">>>>,
      \* two entries: A: br c1, B, C; B -> C; C: br c2, B, X
      <<<<"cbr", 2, 3>>, <<"br", 3>>, <<"cbr", 2, 4>>, <<"ret">>>>,
      \* shared guard: A: br c1, B, C; B: br c2, C, D; C -> X; D -> X; X: ret
      <<<<"cbr", 2, 3>>, <<"cbr", 3, 4>>, <<"br", 5>>, <<"br", 5>>, <<"ret">>>> }

ScenarioFunctions ==
    {[n |-> Len(t), term |-> t, ninst |-> k] : t \in ScenarioTerms, k \in 0..MaxInst}

EmptyFunction == [n |-> 0, term |-> <<>>, ninst |-> 0]

Functions == GeneratedFunctions \cup ScenarioFunctions

(***************************************************************************)
(* The analyses runOnFunction asks LLVM for (program_output.cpp 655-656).   *)
(* A dominator tree holds the blocks reachable from its roots; the          *)
(* post-dominator tree's roots are the blocks without successors, and with  *)
(* more than one root the tree gets a virtual root whose block is null.     *)
(***************************************************************************)
\* DominatorTree of f: each reachable block's set of dominators.
computeDomTree(f) ==
    LET nodes == reachable(f)
    IN  [nodes |-> nodes,
         doms |-> [b \in nodes |->
                     {a \in nodes : a = b \/ b \notin reachClosure(f, {1} \ {a}, {a})}]]

exitBlocks(f) == {b \in Blocks(f) : successors(f, b) = <<>>}

\* Whether b reaches a block without successors along a path that avoids a.
reachesExitAvoiding(f, b, a) ==
    b # a /\ reachClosure(f, {b}, {a}) \cap exitBlocks(f) # {}

\* PostDominatorTree of f: the blocks that reach an exit block, each with its
\* set of post-dominators and its immediate post-dominator (getIDom).
computePostDomTree(f) ==
    LET roots == exitBlocks(f)
        nodes == {b \in Blocks(f) : reachClosure(f, {b}, {}) \cap roots # {}}
        pdoms == [b \in nodes |->
                    {a \in nodes : a = b \/ ~reachesExitAvoiding(f, b, a)}]
        multi == Cardinality(roots) > 1
        idomOf(b) ==
            LET strict == pdoms[b] \ {b}
            IN  IF strict = {} THEN (IF multi THEN VirtualRoot ELSE Null)
                ELSE CHOOSE y \in strict : \A z \in strict : z \in pdoms[y]
    IN  [nodes |-> nodes,
         multi |-> multi,
         pdoms |-> pdoms,
         idom |-> [b \in nodes |-> idomOf(b)]]

\* DominatorTreeBase::dominates(A, B) on blocks: a block outside the tree is
\* dominated by anything and dominates nothing but itself.
domTreeDominates(dt, a, b) ==
    IF a = b THEN TRUE
    ELSE IF b \notin dt.nodes THEN TRUE
    ELSE IF a \notin dt.nodes THEN FALSE
    ELSE a \in dt.doms[b]

postDomTreeDominates(pdt, a, b) ==
    IF a = b THEN TRUE
    ELSE IF b \notin pdt.nodes THEN TRUE
    ELSE IF a \notin pdt.nodes THEN FALSE
    ELSE a \in pdt.pdoms[b]

\* postDomTree->getNode(block): the block itself when it is in the tree, the
\* virtual root for the null block when there is one, otherwise null.
pdtGetNode(pdt, block) ==
    IF block = Null THEN (IF pdt.multi THEN VirtualRoot ELSE Null)
    ELSE IF block \in pdt.nodes THEN block
    ELSE Null

\* DomTreeNode::getIDom() and DomTreeNode::getBlock().
pdtGetIDom(pdt, node) == IF node = VirtualRoot THEN Null ELSE pdt.idom[node]
pdtGetBlock(node) == IF node = VirtualRoot THEN Null ELSE node

\* llvm::post_order(&fn.getEntryBlock()).
RECURSIVE postOrderFrom(_, _, _)
RECURSIVE postOrderSuccs(_, _, _, _)
postOrderFrom(f, b, st) ==
    IF b \in st.visited THEN st
    ELSE LET after == postOrderSuccs(f, successors(f, b), 1,
                                     [visited |-> st.visited \cup {b}, out |-> st.out])
         IN  [visited |-> after.visited, out |-> Append(after.out, b)]
postOrderSuccs(f, succs, i, st) ==
    IF i > Len(succs) THEN st
    ELSE postOrderSuccs(f, succs, i + 1, postOrderFrom(f, succs[i], st))

\* A walk that yields the entry block a second time.
postOrderRepeatingEntry(f) ==
    Append(postOrderFrom(f, 1, [visited |-> {}, out |-> <<>>]).out, 1)

post_order(f) == postOrderFrom(f, 1, [visited |-> {}, out |-> <<>>]).out

\* findBackEdgeDestinations: a depth-first walk that keeps the current path in
\* `stack`; a successor already on the path is a back-edge destination.
RECURSIVE findBackEdgeDestinationsFrom(_, _, _, _)
RECURSIVE findBackEdgeSuccs(_, _, _, _, _)
findBackEdgeDestinationsFrom(f, entry, stack, result) ==
    findBackEdgeSuccs(f, successors(f, entry), 1, Append(stack, entry), result)
findBackEdgeSuccs(f, succs, i, stack, result) ==
    IF i > Len(succs) THEN result
    ELSE LET bb == succs[i]
             r == IF bb \notin Range(stack)
                  THEN findBackEdgeDestinationsFrom(f, bb, stack, result)
                  ELSE result \cup {bb}
         IN  findBackEdgeSuccs(f, succs, i + 1, stack, r)

findBackEdgeDestinations(f) == findBackEdgeDestinationsFrom(f, 1, <<>>, {})

(***************************************************************************)
(* Expressions and statements (ast_nodes).  An expression is a value:       *)
(* <<"val", v>>, <<"not", e>>, <<"or", l, r>>, <<"and", l, r>>, and         *)
(* isReferenceEqual is equality of these values.  A term of a product is an *)
(* Expression*: its address p and the expression e it points to.            *)
(* A statement lives in the pool at an address (its index in `pool`):       *)
(*   <<"expr", b, i>>            ExpressionNode of instruction i of block b *)
(*   <<"seq", <<addresses>>>>    SequenceNode                               *)
(*   <<"if", cond, ifBody, elseBody>>   IfElseNode, elseBody may be Null    *)
(*   <<"loop", cond, body, position>>   LoopNode                            *)
(***************************************************************************)
NoExpr == <<"null">>
\* No two expressions compare equal.
neverReferenceEqual(a, b) == FALSE

isReferenceEqual(a, b) == a = b
isNegation(e) == e[1] = "not"

\* BreakNode::breakNode, the one break statement; it is not in the pool.
breakNode == -2

isType(pool, stmt, type) == stmt \in DOMAIN pool /\ pool[stmt][1] = type

(***************************************************************************)
(* AstGrapher (ast_grapher.cpp).  g holds the pool and the grapher's three  *)
(* members; a graph node is its index in nodeStorage.                       *)
(***************************************************************************)
mapPut(m, k, v) == [x \in DOMAIN m \cup {k} |-> IF x = k THEN v ELSE m[x]]

EmptyMap == [x \in {} |-> Null]

newGrapher(pool) ==
    [pool |-> pool, nodeStorage |-> <<>>, nodeByEntry |-> EmptyMap,
     graphNodeByAstNode |-> EmptyMap]

\* No node is taken to have an exit of its own.
neverHasExit(node) == FALSE

\* AstGraphNode::hasExit()
hasExit(node) == node.exit # node.entry

\* AstGrapher::addBasicBlock(bb): the block's SequenceNode, then one
\* ExpressionNode for each statement of the block.
addBasicBlock(g, f, bb) ==
    LET node == Len(g.pool) + 1
        k == numStatements(f, bb)
        pool1 == Append(g.pool, <<"seq", [i \in 1..k |-> node + i]>>)
                     \o [i \in 1..k |-> <<"expr", bb, i>>]
        storage == Append(g.nodeStorage, [node |-> node, entry |-> bb, exit |-> bb])
    IN  [pool |-> pool1,
         nodeStorage |-> storage,
         nodeByEntry |-> mapPut(g.nodeByEntry, bb, node),
         graphNodeByAstNode |-> mapPut(g.graphNodeByAstNode, node, Len(storage))]

\* AstGrapher::updateRegion(entry, exit, node)
updateRegion(g, entry, exit, node) ==
    LET storage == Append(g.nodeStorage, [node |-> node, entry |-> entry, exit |-> exit])
    IN  [pool |-> g.pool,
         nodeStorage |-> storage,
         nodeByEntry |-> mapPut(g.nodeByEntry, entry, node),
         graphNodeByAstNode |-> mapPut(g.graphNodeByAstNode, node, Len(storage))]

\* AstGrapher::getGraphNode(node)
getGraphNode(g, node) ==
    IF node \in DOMAIN g.graphNodeByAstNode THEN g.graphNodeByAstNode[node] ELSE Null

\* AstGrapher::getGraphNodeFromEntry(block)
getGraphNodeFromEntry(g, block) ==
    IF block \in DOMAIN g.nodeByEntry THEN getGraphNode(g, g.nodeByEntry[block]) ELSE Null

(***************************************************************************)
(* ReachingConditions (program_output.cpp 68-133).  The walk's result is    *)
(* the map `conditions` from statement to its sum of products, the next     *)
(* free expression address, and ok = FALSE when the walk used a null graph  *)
(* node.                                                                    *)
(***************************************************************************)
conditionsPush(conds, stmt, product) ==
    mapPut(conds, stmt,
           IF stmt \in DOMAIN conds THEN Append(conds[stmt], product) ELSE <<product>>)

\* 96: pool.allocate<ValueExpression>(*branch->getCondition()), at address p,
\* for the branch that ends `block`.
valueExpression(p, block) == [p |-> p, e |-> <<"val", block>>]

\* The false branch given the expression of the true branch.
sameExpression(p, trueExpr) == [p |-> p, e |-> trueExpr.e]

\* 101: pool.allocate<UnaryOperatorExpression>(LogicalNegate, trueExpr).
negationExpression(p, trueExpr) == [p |-> p, e |-> <<"not", trueExpr.e>>]

RECURSIVE build(_, _, _, _, _, _)
build(g, f, st, currentNode, conditionStack, visitStack) ==
    IF ~st.ok THEN st
    ELSE IF currentNode \in Range(visitStack) THEN st
    ELSE IF currentNode = Null THEN [st EXCEPT !.ok = FALSE]
    ELSE
        LET n == g.nodeStorage[currentNode]
            vs == Append(visitStack, currentNode)
            st1 == [st EXCEPT !.conds = conditionsPush(@, n.node, conditionStack)]
            t == f.term[n.entry]
        IN  IF hasExit(n)
            THEN build(g, f, st1, getGraphNodeFromEntry(g, n.exit), conditionStack, vs)
            ELSE IF t[1] = "cbr"
            THEN LET trueExpr == valueExpression(st1.np, n.entry)
                     st2 == build(g, f, [st1 EXCEPT !.np = @ + 1],
                                  getGraphNodeFromEntry(g, t[2]),
                                  Append(conditionStack, trueExpr), vs)
                 IN  build(g, f, [st2 EXCEPT !.np = @ + 1],
                           getGraphNodeFromEntry(g, t[3]),
                           Append(conditionStack, negationExpression(st2.np, trueExpr)),
                           vs)
            ELSE IF t[1] = "br"
            THEN build(g, f, st1, getGraphNodeFromEntry(g, t[2]), conditionStack, vs)
            ELSE st1

buildSumsOfProducts(g, f, regionStart, regionEnd) ==
    build(g, f, [ok |-> TRUE, conds |-> EmptyMap, np |-> 1],
          regionStart, <<>>, <<regionEnd>>)

(***************************************************************************)
(* postOrder / reversePostOrder (program_output.cpp 135-162).               *)
(***************************************************************************)
RECURSIVE postOrder(_, _, _, _)
RECURSIVE postOrderChildren(_, _, _, _, _)
postOrder(g, f, st, current) ==
    IF ~st.ok THEN st
    ELSE IF current \in st.visited THEN st
    ELSE IF current = Null THEN [st EXCEPT !.ok = FALSE]
    ELSE
        LET n == g.nodeStorage[current]
            st1 == [st EXCEPT !.visited = @ \cup {current}]
            st2 == IF hasExit(n)
                   THEN postOrder(g, f, st1, getGraphNodeFromEntry(g, n.exit))
                   ELSE postOrderChildren(g, f, st1, successors(f, n.entry), 1)
        IN  [st2 EXCEPT !.into = Append(@, n.node)]
postOrderChildren(g, f, st, succs, i) ==
    IF i > Len(succs) THEN st
    ELSE postOrderChildren(g, f, postOrder(g, f, st, getGraphNodeFromEntry(g, succs[i])),
                           succs, i + 1)

Reverse(s) == [i \in 1..Len(s) |-> s[Len(s) + 1 - i]]

reversePostOrder(g, f, entry, exit) ==
    LET st == postOrder(g, f, [ok |-> TRUE, visited |-> {exit}, into |-> <<>>], entry)
    IN  [ok |-> st.ok, nodes |-> Reverse(st.into)]

(***************************************************************************)
(* Boolean helpers and simplifySumOfProducts (program_output.cpp 164-367).  *)
(***************************************************************************)
\* logicalNegate(pool, toNegate)
logicalNegate(e) == IF isNegation(e) THEN e[2] ELSE <<"not", e>>

\* coalesce(pool, type, left, right)
coalesce(type, left, right) ==
    IF left = NoExpr THEN right
    ELSE IF right = NoExpr THEN left
    ELSE <<type, left, right>>

\* collapse(pool, terms, joint): the terms' expressions joined left to right.
RECURSIVE collapseFrom(_, _, _, _)
collapseFrom(terms, joint, i, result) ==
    IF i > Len(terms) THEN result
    ELSE collapseFrom(terms, joint, i + 1, coalesce(joint, result, terms[i].e))
collapse(terms, joint) == collapseFrom(terms, joint, 1, NoExpr)

RemoveAt(s, i) == SubSeq(s, 1, i - 1) \o SubSeq(s, i + 1, Len(s))

\* std::find_if over s[from..Len(s)]: the first index whose element satisfies
\* Test, or Len(s) + 1 (the end iterator).
findIf(s, from, Test(_)) ==
    IF \E k \in from..Len(s) : Test(s[k])
    THEN CHOOSE k \in from..Len(s) : Test(s[k]) /\ \A j \in from..(k - 1) : ~Test(s[j])
    ELSE Len(s) + 1

\* expandToProductOfSums(stack, output, sumOfProductsIter, sumOfProductsEnd)
RECURSIVE expandToProductOfSums(_, _, _, _)
RECURSIVE expandRow(_, _, _, _, _)
expandToProductOfSums(stack, output, sumOfProducts, row) ==
    IF row > Len(sumOfProducts) THEN Append(output, stack)
    ELSE expandRow(stack, output, sumOfProducts, row, 1)
expandRow(stack, output, sumOfProducts, row, i) ==
    IF i > Len(sumOfProducts[row]) THEN output
    ELSE expandRow(stack,
                   expandToProductOfSums(Append(stack, sumOfProducts[row][i]), output,
                                         sumOfProducts, row + 1),
                   sumOfProducts, row, i + 1)

\* Step 1 (241-282): each term of the first product that every other product
\* holds is isolated as a sum of its own and erased from every product.
\* st: the products (first product first), the output, the index of termIter.
RECURSIVE collectIdenticalTerms(_)
collectIdenticalTerms(st) ==
    LET firstProduct == st.sop[1]
        i == st.i
    IN  IF i > Len(firstProduct) THEN st
        ELSE
            LET term == firstProduct[i]
                same(that) == isReferenceEqual(that.e, term.e)
                location(j) == findIf(st.sop[j], 1, same)
                \* the search stops at the first product that lacks the term
                inEvery == \A j \in 2..Len(st.sop) : location(j) <= Len(st.sop[j])
            IN  IF inEvery
                THEN collectIdenticalTerms(
                        [sop |-> [j \in 1..Len(st.sop) |->
                                    IF j = 1 THEN RemoveAt(firstProduct, i)
                                    ELSE RemoveAt(st.sop[j], location(j))],
                         out |-> Append(st.out, <<term>>),
                         i |-> i])
                ELSE collectIdenticalTerms([st EXCEPT !.i = i + 1])

\* Erase empty products (284-296).
eraseEmpty(sop) == SelectSeq(sop, LAMBDA product : Len(product) > 0)

\* std::remove(first, last, value) where value is a reference to the element
\* at `first`: the element is found at once, and every later element is
\* compared with what the slot `first` holds at that moment, which the first
\* move overwrites.  s is the range up to `last`; the result is the range up
\* to the returned iterator.
RECURSIVE removeAliased(_, _, _, _)
removeAliased(s, first, write, read) ==
    IF read > Len(s) THEN SubSeq(s, 1, write - 1)
    ELSE IF s[read].p = s[first].p
         THEN removeAliased(s, first, write, read + 1)
         ELSE removeAliased([s EXCEPT ![write] = s[read]], first, write + 1, read + 1)
stdRemove(s, first) == removeAliased(s, first, first, first + 1)

\* Step 3 for one sum (313-353): delete A | ~A.
RECURSIVE deleteContradictions(_, _)
deleteContradictions(sum, iter) ==
    IF iter > Len(sum) THEN sum
    ELSE
        LET e == sum[iter].e
            isE(that) == isReferenceEqual(that.e, e[2])
            isNotE(that) == isNegation(that.e) /\ isReferenceEqual(that.e[2], e)
            negation == IF isNegation(e) THEN findIf(sum, iter + 1, isE)
                        ELSE findIf(sum, iter + 1, isNotE)
        IN  IF negation <= Len(sum)
            THEN deleteContradictions(stdRemove(stdRemove(sum, negation), iter), iter)
            ELSE deleteContradictions(sum, iter + 1)

\* Step 2 (299-307): the sums that take one term of every remaining product.
RECURSIVE expandFirstProduct(_, _, _)
expandFirstProduct(sop, output, i) ==
    IF i > Len(sop[1]) THEN output
    ELSE expandFirstProduct(sop,
                            expandToProductOfSums(<<sop[1][i]>>, output, sop, 2),
                            i + 1)

\* simplifySumOfProducts(pool, sumOfProducts): the product of sums returned
\* and the argument as the call leaves it.  undefined: the products were all
\* erased and sumOfProducts.front() was read all the same; productOfSums is
\* then what the call returns when that read yields an empty product.
simplifySumOfProducts(sumOfProducts) ==
    IF Len(sumOfProducts) = 0
    THEN [undefined |-> FALSE, productOfSums |-> <<>>, sumOfProducts |-> <<>>]
    ELSE
        LET step1 == IF Len(sumOfProducts) > 1
                     THEN LET c == collectIdenticalTerms(
                                       [sop |-> sumOfProducts, out |-> <<>>, i |-> 1])
                          IN  [sop |-> eraseEmpty(c.sop), out |-> c.out]
                     ELSE [sop |-> sumOfProducts, out |-> <<>>]
            step2 == IF Len(step1.sop) = 0 THEN step1.out
                     ELSE expandFirstProduct(step1.sop, step1.out, 1)
            step3 == [k \in 1..Len(step2) |-> deleteContradictions(step2[k], 1)]
        IN  [undefined |-> Len(step1.sop) = 0,
             productOfSums |-> eraseEmpty(step3),
             sumOfProducts |-> step1.sop]

(***************************************************************************)
(* recursivelySimplifyStatement (program_output.cpp 399-514).  The result   *)
(* is the pool after the call, the statement returned, and err: "" or the   *)
(* assertion that failed.  IfElse and Loop nodes are changed in place.      *)
(***************************************************************************)
statementsOf(pool, seq) == pool[seq][2]

seqPush(pool, seq, stmt) == [pool EXCEPT ![seq] = <<"seq", Append(@[2], stmt)>>]

RECURSIVE seqPushAll(_, _, _, _)
seqPushAll(pool, seq, stmts, j) ==
    IF j > Len(stmts) THEN pool
    ELSE seqPushAll(seqPush(pool, seq, stmts[j]), seq, stmts, j + 1)

\* Lines 426-437 left out.
keepBranches(ifElse) == ifElse

\* The while loop of recursivelySimplifyIfElse (426-437) on an IfElse record.
RECURSIVE swapNegatedBranches(_)
swapNegatedBranches(ifElse) ==
    IF isNegation(ifElse[2]) /\ ifElse[4] # Null
    THEN swapNegatedBranches(<<"if", ifElse[2][2], ifElse[4], ifElse[3]>>)
    ELSE ifElse

\* LoopNode::isEndless()
isEndless(loop) == loop[4] = "Endless"

RECURSIVE recursivelySimplifyStatement(_, _)
RECURSIVE recursivelySimplifySequenceFrom(_, _, _, _)

recursivelySimplifySequence(pool, sequence) ==
    LET simplified == Len(pool) + 1
        done == recursivelySimplifySequenceFrom(
                    [err |-> "", pool |-> Append(pool, <<"seq", <<>>>>)],
                    sequence, simplified, 1)
        stmts == statementsOf(done.pool, simplified)
    IN  [err |-> done.err, pool |-> done.pool,
         r |-> IF Len(stmts) = 1 THEN stmts[1] ELSE simplified]

recursivelySimplifySequenceFrom(st, sequence, simplified, i) ==
    IF st.err # "" \/ i > Len(statementsOf(st.pool, sequence)) THEN st
    ELSE
        LET sub == statementsOf(st.pool, sequence)[i]
            asSimplified == recursivelySimplifyStatement(st.pool, sub)
            pushed == IF isType(asSimplified.pool, asSimplified.r, "seq")
                      THEN seqPushAll(asSimplified.pool, simplified,
                                      statementsOf(asSimplified.pool, asSimplified.r), 1)
                      ELSE seqPush(asSimplified.pool, simplified, asSimplified.r)
        IN  recursivelySimplifySequenceFrom(
                [err |-> asSimplified.err, pool |-> pushed], sequence, simplified, i + 1)

recursivelySimplifyIfElse(pool, ifElse) ==
    LET pool1 == [pool EXCEPT ![ifElse] = swapNegatedBranches(@)]
        body == recursivelySimplifyStatement(pool1, pool1[ifElse][3])
        pool2 == [body.pool EXCEPT ![ifElse][3] = body.r]
        elseBody == pool2[ifElse][4]
        other == recursivelySimplifyStatement(pool2, elseBody)
        childCond == pool2[ifElse][3]
    IN  IF body.err # "" THEN [err |-> body.err, pool |-> pool2, r |-> ifElse]
        ELSE IF elseBody # Null
        THEN [err |-> other.err,
              pool |-> [other.pool EXCEPT ![ifElse][4] = other.r],
              r |-> ifElse]
        ELSE IF isType(pool2, childCond, "if") /\ pool2[childCond][4] = Null
        THEN [err |-> "",
              pool |-> [pool2 EXCEPT ![ifElse] =
                          <<"if", <<"and", @[2], pool2[childCond][2]>>,
                            pool2[childCond][3], Null>>],
              r |-> ifElse]
        ELSE [err |-> "", pool |-> pool2, r |-> ifElse]

recursivelySimplifyLoop(pool, loop) ==
    LET body == recursivelySimplifyStatement(pool, pool[loop][3])
        pool1 == [body.pool EXCEPT ![loop][3] = body.r]
        sequence == pool1[loop][3]
        stmts == statementsOf(pool1, sequence)
        last == stmts[Len(stmts)]
    IN  IF body.err # "" THEN [err |-> body.err, pool |-> pool1, r |-> loop]
        ELSE IF isEndless(pool1[loop]) /\ isType(pool1, sequence, "seq")
        THEN IF Len(stmts) = 0
             THEN [err |-> "assert(lastIndex > 0)", pool |-> pool1, r |-> loop]
             ELSE IF isType(pool1, last, "if") /\ pool1[last][3] = breakNode
             THEN \* DoWhile
                  [err |-> "",
                   pool |-> [pool1 EXCEPT
                               ![loop] = <<"loop", logicalNegate(pool1[last][2]),
                                           sequence, "PostTested">>,
                               ![sequence] = <<"seq", RemoveAt(stmts, Len(stmts))>>],
                   r |-> loop]
             ELSE [err |-> "", pool |-> pool1, r |-> loop]
        ELSE [err |-> "", pool |-> pool1, r |-> loop]

recursivelySimplifyStatement(pool, statement) ==
    IF isType(pool, statement, "seq") THEN recursivelySimplifySequence(pool, statement)
    ELSE IF isType(pool, statement, "if") THEN recursivelySimplifyIfElse(pool, statement)
    ELSE IF isType(pool, statement, "loop") THEN recursivelySimplifyLoop(pool, statement)
    ELSE [err |-> "", pool |-> pool, r |-> statement]

(***************************************************************************)
(* structurizeRegion (program_output.cpp 516-607).                          *)
(***************************************************************************)
\* Lines 540-601 for one sum: st.body is the sequence the node goes into.
\* A cast<SequenceNode> of a statement that is no SequenceNode fails.
placeGuard(st, sum) ==
    LET pool == st.pool
        body == st.body
        stmts == statementsOf(pool, body)
        condition == collapse(sum, "or")
        conditional == stmts[Len(stmts)]
        lastIsIf == Len(stmts) > 0 /\ isType(pool, conditional, "if")
        isSumNegated == lastIsIf /\ isNegation(condition)
        sumCondition == IF isSumNegated THEN condition[2] ELSE condition
        thisCondition == pool[conditional][2]
        isCurrentConditionNegated == isNegation(thisCondition)
        currentCondition == IF isCurrentConditionNegated THEN thisCondition[2]
                            ELSE thisCondition
        ifBody == pool[conditional][3]
        elseBody == pool[conditional][4]
        newBody == Len(pool) + 1
    IN  IF lastIsIf /\ isReferenceEqual(currentCondition, sumCondition)
        THEN IF isSumNegated = isCurrentConditionNegated
             THEN \* Same condition: insert into if body
                  IF isType(pool, ifBody, "seq")
                  THEN [st EXCEPT !.body = ifBody]
                  ELSE [st EXCEPT !.err = "cast<SequenceNode>(conditional->ifBody)"]
             ELSE \* Inverted condition: insert into else body
                  IF elseBody = Null
                  THEN [st EXCEPT
                          !.pool = [Append(pool, <<"seq", <<>>>>) EXCEPT
                                      ![conditional][4] = newBody],
                          !.body = newBody]
                  ELSE IF isType(pool, elseBody, "seq")
                  THEN [st EXCEPT !.body = elseBody]
                  ELSE [st EXCEPT !.err = "cast_or_null<SequenceNode>(conditional->elseBody)"]
        ELSE \* Otherwise, just create a new node.
             [st EXCEPT
                !.pool = seqPush(pool \o <<<<"seq", <<>>>>,
                                           <<"if", sumCondition, newBody, Null>>>>,
                                 body, newBody + 1),
                !.body = newBody]

RECURSIVE placeGuards(_, _, _)
placeGuards(st, productOfSums, k) ==
    IF st.err # "" \/ k > Len(productOfSums) THEN st
    ELSE placeGuards(placeGuard(st, productOfSums[k]), productOfSums, k + 1)

\* 603-604: the node is pushed onto the body the guards led to.
pushNode(guarded, node) ==
    IF guarded.err # "" THEN [err |-> guarded.err, pool |-> guarded.pool]
    ELSE [err |-> "", pool |-> seqPush(guarded.pool, guarded.body, node)]

\* 531-604 for one node, given its simplified reaching condition.
structurizeNode(st, sequence, node, simplified) ==
    IF simplified.undefined THEN [st EXCEPT !.err = "sumOfProducts.front()"]
    ELSE pushNode(placeGuards([err |-> "", pool |-> st.pool, body |-> sequence],
                              simplified.productOfSums, 1),
                  node)

\* The loop over the region's nodes (529-605).
RECURSIVE structurizeNodes(_, _, _, _, _)
structurizeNodes(st, conditions, sequence, nodes, k) ==
    IF st.err # "" \/ k > Len(nodes) THEN st
    ELSE IF nodes[k] \notin DOMAIN conditions
    THEN [st EXCEPT !.err = "conditions.at(node)"]
    ELSE structurizeNodes(
            structurizeNode(st, sequence, nodes[k],
                            simplifySumOfProducts(conditions[nodes[k]])),
            conditions, sequence, nodes, k + 1)

\* 516-607 once the reaching conditions and the order are known.
structurizeOrdered(g, reach, order) ==
    IF ~reach.ok \/ ~order.ok
    THEN [err |-> "null graph node", pool |-> g.pool]
    ELSE structurizeNodes([err |-> "", pool |-> Append(g.pool, <<"seq", <<>>>>)],
                          reach.conds, Len(g.pool) + 1, order.nodes, 1)

\* structurizeRegion between two graph nodes.
structurizeBetween(g, f, astEntry, astExit) ==
    structurizeOrdered(g, buildSumsOfProducts(g, f, astEntry, astExit),
                       reversePostOrder(g, f, astEntry, astExit))

\* The result: err, the pool after the call, and r, the sequence returned.
structurizeRegion(g, f, entry, exit) ==
    [r |-> Len(g.pool) + 1] @@
    structurizeBetween(g, f, getGraphNodeFromEntry(g, entry),
                       getGraphNodeFromEntry(g, exit))

(***************************************************************************)
(* AstBackEnd::runOnLoop and runOnRegion (program_output.cpp 706-727): the  *)
(* grapher after the call, or err when the call did not return.             *)
(***************************************************************************)
\* 709-710 and 724-725: the region is structurized, then simplified.
\* recursivelyAddBreakStatements (394-397) adds nothing in between.
simplifyStructurized(sequence) ==
    IF sequence.err # "" THEN sequence
    ELSE recursivelySimplifyStatement(sequence.pool, sequence.r)

\* 726: the simplified region replaces its nodes in the grapher.
foldRegion(g, entry, exit, simplified) ==
    IF simplified.err # "" THEN [err |-> simplified.err, g |-> g]
    ELSE [err |-> "",
          g |-> updateRegion([g EXCEPT !.pool = simplified.pool],
                             entry, exit, simplified.r)]

runOnRegion(g, f, entry, exit) ==
    foldRegion(g, entry, exit, simplifyStructurized(structurizeRegion(g, f, entry, exit)))

\* 717-718: an endless loop around the simplified region replaces its nodes.
foldLoop(g, entry, exit, simplified) ==
    IF simplified.err # "" THEN [err |-> simplified.err, g |-> g]
    ELSE [err |-> "",
          g |-> updateRegion(
                    [g EXCEPT !.pool = Append(simplified.pool,
                                              <<"loop", NoExpr, simplified.r, "Endless">>)],
                    entry, exit, Len(simplified.pool) + 1)]

runOnLoop(g, f, entry, exit) ==
    foldLoop(g, entry, exit, simplifyStructurized(structurizeRegion(g, f, entry, exit)))

(***************************************************************************)
(* AstBackEnd::isRegion (program_output.cpp 729-779).                       *)
(***************************************************************************)
\* The test of line 760 without its post-dominance half.
regionTestEntryOnly(dt, pdt, entry, exit, bb) == domTreeDominates(dt, entry, bb)

\* The test of line 760 on the block taken from toVisit.
regionTest(dt, pdt, entry, exit, bb) ==
    domTreeDominates(dt, entry, bb)
        /\ (exit = Null \/ postDomTreeDominates(pdt, exit, bb))

\* Lines 762-770 without queueing the successors.
regionToVisitNoSuccessors(f, frontier, seen, bb) == frontier \ {bb}

\* Lines 762-770: the frontier after bb passed the test.
regionToVisit(f, frontier, seen, bb) ==
    (frontier \ {bb}) \cup {succ \in succSet(f, bb) : succ \notin seen \cup {bb}}

(***************************************************************************)
(* State.                                                                   *)
(***************************************************************************)
VARIABLES
    module,             \* the llvm::Module: its functions in order
    fi,                 \* the function runOnModule is at
    pc,                 \* where the pass is
    err,                \* the assertion or null dereference that ended the run
    pool,               \* DumbAllocator pool: the statements allocated
    nodeStorage,        \* AstGrapher::nodeStorage
    nodeByEntry,        \* AstGrapher::nodeByEntry
    graphNodeByAstNode, \* AstGrapher::graphNodeByAstNode
    astPerFunction,     \* AstBackEnd::astPerFunction
    domTree,            \* AstBackEnd::domTree
    postDomTree,        \* AstBackEnd::postDomTree
    backNodes,          \* runOnFunction's backNodes
    worklist,           \* the blocks post_order has yet to yield
    entry,              \* runOnFunction's entry (isRegion's entry)
    domNode,            \* runOnFunction's domNode
    successor,          \* runOnFunction's successor
    exit,               \* runOnFunction's exit (isRegion's exit)
    folds,              \* the calls of runOnLoop and runOnRegion so far
    toVisit,            \* isRegion's toVisit
    visited,            \* isRegion's visited
    examined,           \* the blocks isRegion took from toVisit, in order
    sumOfProducts,      \* simplifySumOfProducts' argument
    productOfSums,      \* simplifySumOfProducts' result
    lastCall,           \* the grapher call made last and what it returned
    walk                \* ReachingConditions::build under way: its frames and stacks

vars == <<module, fi, pc, err, pool, nodeStorage, nodeByEntry, graphNodeByAstNode,
          astPerFunction, domTree, postDomTree, backNodes, worklist, entry, domNode,
          successor, exit, folds, toVisit, visited, examined, sumOfProducts,
          productOfSums, lastCall, walk>>

grapherVars == <<pool, nodeStorage, nodeByEntry, graphNodeByAstNode>>
analysisVars == <<domTree, postDomTree>>
climbVars == <<entry, domNode, successor, exit>>
regionVars == <<toVisit, visited, examined>>
simplifierVars == <<sumOfProducts, productOfSums>>

\* The grapher and the pool as the operators take them.
grapher ==
    [pool |-> pool, nodeStorage |-> nodeStorage, nodeByEntry |-> nodeByEntry,
     graphNodeByAstNode |-> graphNodeByAstNode]

setGrapher(g) ==
    /\ pool' = g.pool
    /\ nodeStorage' = g.nodeStorage
    /\ nodeByEntry' = g.nodeByEntry
    /\ graphNodeByAstNode' = g.graphNodeByAstNode

fn == module[fi]

NoTree == [nodes |-> {}]

\* No call of ReachingConditions::build is under way.
NoWalk == [frames |-> <<>>]

\* The state after construction, for a given module.
Constructed(m) ==
    /\ module = m
    /\ fi = 0
    /\ err = ""
    /\ pool = <<>>
    /\ nodeStorage = <<>>
    /\ nodeByEntry = EmptyMap
    /\ graphNodeByAstNode = EmptyMap
    /\ astPerFunction = EmptyMap
    /\ domTree = NoTree
    /\ postDomTree = NoTree
    /\ backNodes = {}
    /\ worklist = <<>>
    /\ entry = Null
    /\ domNode = Null
    /\ successor = Null
    /\ exit = Null
    /\ folds = <<>>
    /\ toVisit = {}
    /\ visited = {}
    /\ examined = <<>>
    /\ sumOfProducts = <<>>
    /\ productOfSums = <<>>
    /\ lastCall = [op |-> "none"]
    /\ walk = NoWalk

Modules ==
    {<<f>> : f \in Functions \cup {EmptyFunction}}
        \cup {<<EmptyFunction, f>> : f \in {h \in Functions : h.n = 1}}
        \cup {<<f, EmptyFunction>> : f \in {h \in Functions : h.n = 1}}

Init ==
    /\ pc = "runOnModule"
    /\ \E m \in Modules : Constructed(m)

(***************************************************************************)
(* AstBackEnd::runOnModule and runOnFunction (program_output.cpp 621-704).  *)
(***************************************************************************)
abort(why) ==
    /\ pc' = "aborted"
    /\ err' = why

\* 623-625: the pool and the map are cleared and the grapher is made anew.
RunOnModule ==
    /\ pc = "runOnModule"
    /\ pc' = "runOnFunction"
    /\ fi' = 1
    /\ astPerFunction' = EmptyMap
    /\ setGrapher(newGrapher(<<>>))
    /\ UNCHANGED <<walk, module, err, analysisVars, backNodes, worklist, climbVars, folds,
                   regionVars, simplifierVars, lastCall>>

\* 628-632: every function has been run.
RunOnModuleReturn ==
    /\ pc = "runOnFunction"
    /\ fi > Len(module)
    /\ pc' = "done"
    /\ UNCHANGED <<walk, module, fi, err, grapherVars, astPerFunction, analysisVars, backNodes,
                   worklist, climbVars, folds, regionVars, simplifierVars, lastCall>>

\* 638-647: the sanity checks return at once.
RunOnFunctionSkip ==
    /\ pc = "runOnFunction"
    /\ fi <= Len(module)
    /\ fi \in DOMAIN astPerFunction \/ fn.n = 0
    /\ fi' = fi + 1
    /\ UNCHANGED <<walk, module, pc, err, grapherVars, astPerFunction, analysisVars, backNodes,
                   worklist, climbVars, folds, regionVars, simplifierVars, lastCall>>

\* 649-661: the analyses, the back-edge destinations, the post-order walk.
RunOnFunctionBegin ==
    /\ pc = "runOnFunction"
    /\ fi <= Len(module)
    /\ fi \notin DOMAIN astPerFunction /\ fn.n # 0
    /\ domTree' = computeDomTree(fn)
    /\ postDomTree' = computePostDomTree(fn)
    /\ backNodes' = findBackEdgeDestinations(fn)
    /\ worklist' = post_order(fn)
    /\ folds' = <<>>
    /\ pc' = "blocks"
    /\ UNCHANGED <<walk, module, fi, err, grapherVars, astPerFunction, climbVars, regionVars,
                   simplifierVars, lastCall>>

\* 661-665: the next block of the walk; its post-dominator tree node is used
\* before the block is added.
NextBlock ==
    /\ pc = "blocks"
    /\ worklist # <<>>
    /\ LET bb == Head(worklist)
           node == pdtGetNode(postDomTree, bb)
       IN  /\ worklist' = Tail(worklist)
           /\ entry' = bb
           /\ domNode' = node
           /\ IF node = Null
              THEN /\ abort("domNode->getIDom()")
                   /\ UNCHANGED <<walk, grapherVars, successor>>
              ELSE /\ successor' = pdtGetIDom(postDomTree, node)
                   /\ setGrapher(addBasicBlock(grapher, fn, bb))
                   /\ pc' = "climb"
                   /\ err' = err
    /\ UNCHANGED <<walk, module, fi, astPerFunction, analysisVars, backNodes, exit, folds,
                   regionVars, simplifierVars, lastCall>>

\* 667: the climb ended at the top of the post-dominator tree.
ClimbEnd ==
    /\ pc = "climb"
    /\ domNode = Null
    /\ pc' = "blocks"
    /\ UNCHANGED <<walk, module, fi, err, grapherVars, astPerFunction, analysisVars, backNodes,
                   worklist, climbVars, folds, regionVars, simplifierVars, lastCall>>

\* 669-676 for the current domNode: the graph node looked up, the candidate
\* successor and exit.  graphNode is Null when the lookup finds nothing.
climbGraphNode == getGraphNodeFromEntry(grapher, pdtGetBlock(domNode))

climbSuccessor ==
    LET graphNode == nodeStorage[climbGraphNode]
        atExit == pdtGetNode(postDomTree, graphNode.exit)
    IN  IF hasExit(graphNode) THEN atExit
        ELSE IF atExit = Null THEN Null
        ELSE pdtGetIDom(postDomTree, atExit)

climbExit == IF climbSuccessor # Null THEN pdtGetBlock(climbSuccessor) ELSE Null

\* 669-670: the lookup found no graph node and the null pointer is used.
ClimbNoGraphNode ==
    /\ pc = "climb"
    /\ domNode # Null
    /\ climbGraphNode = Null
    /\ abort("graphNode->getExit()")
    /\ UNCHANGED <<walk, module, fi, grapherVars, astPerFunction, analysisVars, backNodes,
                   worklist, climbVars, folds, regionVars, simplifierVars, lastCall>>

\* 669-677: the candidate exit is computed and isRegion is entered (751-752).
ClimbCandidate ==
    /\ pc = "climb"
    /\ domNode # Null
    /\ climbGraphNode # Null
    /\ successor' = climbSuccessor
    /\ exit' = climbExit
    /\ toVisit' = {entry}
    /\ visited' = {climbExit}
    /\ examined' = <<>>
    /\ pc' = "isRegion"
    /\ UNCHANGED <<walk, module, fi, err, grapherVars, astPerFunction, analysisVars, backNodes,
                   worklist, entry, domNode, folds, simplifierVars, lastCall>>

\* 755-771: a block of toVisit passes the test and its successors are queued.
\* toVisit is an unordered_set: begin() is any of its elements.
RegionVisit(bb) ==
    /\ pc = "isRegion"
    /\ bb \in toVisit
    /\ regionTest(domTree, postDomTree, entry, exit, bb)
    /\ toVisit' = regionToVisit(fn, toVisit, visited, bb)
    /\ visited' = visited \cup {bb}
    /\ examined' = Append(examined, bb)
    /\ UNCHANGED <<walk, module, fi, pc, err, grapherVars, astPerFunction, analysisVars,
                   backNodes, worklist, climbVars, folds, simplifierVars, lastCall>>

\* 772-775: the block taken from toVisit fails the test: isRegion returns false.
RegionReject(bb) ==
    /\ pc = "isRegion"
    /\ bb \in toVisit
    /\ ~regionTest(domTree, postDomTree, entry, exit, bb)
    /\ examined' = Append(examined, bb)
    /\ pc' = "notRegion"
    /\ UNCHANGED <<walk, module, fi, err, grapherVars, astPerFunction, analysisVars, backNodes,
                   worklist, climbVars, folds, toVisit, visited, simplifierVars, lastCall>>

\* 753 and 778: toVisit is empty: isRegion returns true.
RegionAccept ==
    /\ pc = "isRegion"
    /\ toVisit = {}
    /\ pc' = "region"
    /\ UNCHANGED <<walk, module, fi, err, grapherVars, astPerFunction, analysisVars, backNodes,
                   worklist, climbVars, folds, regionVars, simplifierVars, lastCall>>

\* 692-695: no region, and entry does not dominate exit: the climb stops.
ClimbBreak ==
    /\ pc = "notRegion"
    /\ ~domTreeDominates(domTree, entry, exit)
    /\ pc' = "blocks"
    /\ UNCHANGED <<walk, module, fi, err, grapherVars, astPerFunction, analysisVars, backNodes,
                   worklist, climbVars, folds, regionVars, simplifierVars, lastCall>>

\* 692-696: no region, but entry dominates exit: the climb goes on.
ClimbNext ==
    /\ pc = "notRegion"
    /\ domTreeDominates(domTree, entry, exit)
    /\ domNode' = successor
    /\ pc' = "climb"
    /\ UNCHANGED <<walk, module, fi, err, grapherVars, astPerFunction, analysisVars, backNodes,
                   worklist, entry, successor, exit, folds, regionVars, simplifierVars,
                   lastCall>>

\* The fold of the region found: the grapher after it, the call logged, and
\* the climb resumed at successor (696); or the failure that ended the run.
folded(done, call) ==
    IF done.err # ""
    THEN /\ abort(done.err)
         /\ UNCHANGED <<walk, grapherVars, domNode, folds>>
    ELSE /\ setGrapher(done.g)
         /\ folds' = Append(folds, call)
         /\ domNode' = successor
         /\ pc' = "climb"
         /\ err' = err

\* Line 685 left out.
keepBackNode(nodes, bb) == nodes

\* 685: backNodes.erase(entry).
eraseBackNode(nodes, bb) == nodes \ {bb}

\* 679-685 and 696: runOnLoop, then the block leaves backNodes.
RunOnLoop ==
    /\ pc = "region"
    /\ entry \in backNodes
    /\ folded(runOnLoop(grapher, fn, entry, exit), <<"runOnLoop", entry, exit>>)
    /\ backNodes' = IF pc' = "aborted" THEN backNodes ELSE eraseBackNode(backNodes, entry)
    /\ UNCHANGED <<walk, module, fi, astPerFunction, analysisVars, worklist, entry, successor,
                   exit, regionVars, simplifierVars, lastCall>>

\* 687-690 and 696: runOnRegion.
RunOnRegion ==
    /\ pc = "region"
    /\ entry \notin backNodes
    /\ folded(runOnRegion(grapher, fn, entry, exit), <<"runOnRegion", entry, exit>>)
    /\ UNCHANGED <<walk, module, fi, astPerFunction, analysisVars, backNodes, worklist, entry,
                   successor, exit, regionVars, simplifierVars, lastCall>>

\* 698-703: the walk is over; the root is dumped and runOnFunction returns.
RunOnFunctionReturn ==
    /\ pc = "blocks"
    /\ worklist = <<>>
    /\ IF getGraphNodeFromEntry(grapher, 1) = Null
       THEN abort("getGraphNodeFromEntry(&fn.getEntryBlock())->node")
            /\ fi' = fi
       ELSE /\ pc' = "runOnFunction"
            /\ fi' = fi + 1
            /\ err' = err
    /\ UNCHANGED <<walk, module, grapherVars, astPerFunction, analysisVars, backNodes, worklist,
                   climbVars, folds, regionVars, simplifierVars, lastCall>>

\* AstBackEnd::astForFunction(fn): the entry of astPerFunction for fn, Null
\* when there is none.  i is the function's place in the module.
astForFunction(i) == IF i \in DOMAIN astPerFunction THEN astPerFunction[i] ELSE Null

Next ==
    \/ RunOnModule
    \/ RunOnModuleReturn
    \/ RunOnFunctionSkip
    \/ RunOnFunctionBegin
    \/ NextBlock
    \/ ClimbEnd
    \/ ClimbNoGraphNode
    \/ ClimbCandidate
    \/ \E bb \in toVisit : RegionVisit(bb)
    \/ \E bb \in toVisit : RegionReject(bb)
    \/ RegionAccept
    \/ ClimbBreak
    \/ ClimbNext
    \/ RunOnLoop
    \/ RunOnRegion
    \/ RunOnFunctionReturn

Spec == Init /\ [][Next]_vars

(***************************************************************************)
(* isRegion on its own: called for any reachable entry block and any other  *)
(* block, or null, as exit, with the analyses of the function at hand.      *)
(***************************************************************************)
InitRegion ==
    \E f \in Functions : \E head \in reachable(f) :
        \E tail \in (Blocks(f) \cup {Null}) \ {head} :
            /\ pc = "isRegion"
            /\ module = <<f>>
            /\ fi = 1
            /\ err = ""
            /\ pool = <<>>
            /\ nodeStorage = <<>>
            /\ nodeByEntry = EmptyMap
            /\ graphNodeByAstNode = EmptyMap
            /\ astPerFunction = EmptyMap
            /\ domTree = computeDomTree(f)
            /\ postDomTree = computePostDomTree(f)
            /\ backNodes = {}
            /\ worklist = <<>>
            /\ entry = head
            /\ domNode = Null
            /\ successor = Null
            /\ exit = tail
            /\ folds = <<>>
            /\ toVisit = {head}
            /\ visited = {tail}
            /\ examined = <<>>
            /\ sumOfProducts = <<>>
            /\ productOfSums = <<>>
            /\ lastCall = [op |-> "none"]
            /\ walk = NoWalk

NextRegion ==
    \/ \E bb \in toVisit : RegionVisit(bb)
    \/ \E bb \in toVisit : RegionReject(bb)
    \/ RegionAccept

SpecRegion == InitRegion /\ [][NextRegion]_vars

(***************************************************************************)
(* simplifySumOfProducts on its own: called on any sum of at most           *)
(* MaxProducts products of at most MaxTerms terms, each term the predicate  *)
(* of one of MaxAtoms branches or its negation.  The terms are either all   *)
(* distinct objects or one object per expression.                           *)
(***************************************************************************)
MaxAtoms == 2
MaxTerms == 2
MaxProducts == 2

Literals ==
    {<<"val", a>> : a \in 1..MaxAtoms} \cup {<<"not", <<"val", a>>>> : a \in 1..MaxAtoms}

literalAddress(e) == IF e[1] = "val" THEN e[2] ELSE MaxAtoms + e[2][2]

SeqsUpTo(S, lo, hi) == UNION {[1..k -> S] : k \in lo..hi}

\* The sum whose products point to the given expressions.
allocated(sum, shared) ==
    [i \in 1..Len(sum) |->
        [j \in 1..Len(sum[i]) |->
            [p |-> IF shared THEN literalAddress(sum[i][j]) ELSE i * (MaxTerms + 1) + j,
             e |-> sum[i][j]]]]

SumsOfProducts ==
    {allocated(sum, shared) :
        sum \in SeqsUpTo(SeqsUpTo(Literals, 0, MaxTerms), 1, MaxProducts),
        shared \in BOOLEAN}

InitSimplify ==
    /\ pc = "simplifySumOfProducts"
    /\ \E sum \in SumsOfProducts :
        /\ module = <<>>
        /\ fi = 0
        /\ err = ""
        /\ pool = <<>>
        /\ nodeStorage = <<>>
        /\ nodeByEntry = EmptyMap
        /\ graphNodeByAstNode = EmptyMap
        /\ astPerFunction = EmptyMap
        /\ domTree = NoTree
        /\ postDomTree = NoTree
        /\ backNodes = {}
        /\ worklist = <<>>
        /\ entry = Null
        /\ domNode = Null
        /\ successor = Null
        /\ exit = Null
        /\ folds = <<>>
        /\ toVisit = {}
        /\ visited = {}
        /\ examined = <<>>
        /\ sumOfProducts = sum
        /\ productOfSums = <<>>
        /\ lastCall = [op |-> "none"]
        /\ walk = NoWalk

\* The call, when every read it makes is defined.
SimplifySumOfProducts ==
    /\ pc = "simplifySumOfProducts"
    /\ ~simplifySumOfProducts(sumOfProducts).undefined
    /\ productOfSums' = simplifySumOfProducts(sumOfProducts).productOfSums
    /\ sumOfProducts' = simplifySumOfProducts(sumOfProducts).sumOfProducts
    /\ lastCall' = [op |-> "simplifySumOfProducts", argument |-> sumOfProducts]
    /\ pc' = "simplified"
    /\ UNCHANGED <<walk, module, fi, err, grapherVars, astPerFunction, analysisVars, backNodes,
                   worklist, climbVars, folds, regionVars>>

\* The call, when line 300 reads the front of an emptied sumOfProducts: the
\* read yields the empty product left in the vector's storage, or the call
\* does not return.
SimplifyEmptiedSum(survives) ==
    /\ pc = "simplifySumOfProducts"
    /\ simplifySumOfProducts(sumOfProducts).undefined
    /\ sumOfProducts' = simplifySumOfProducts(sumOfProducts).sumOfProducts
    /\ lastCall' = [op |-> "simplifySumOfProducts", argument |-> sumOfProducts]
    /\ IF survives
       THEN /\ productOfSums' = simplifySumOfProducts(sumOfProducts).productOfSums
            /\ pc' = "simplified"
            /\ err' = err
       ELSE /\ productOfSums' = productOfSums
            /\ abort("sumOfProducts.front()")
    /\ UNCHANGED <<walk, module, fi, grapherVars, astPerFunction, analysisVars, backNodes,
                   worklist, climbVars, folds, regionVars>>

NextSimplify ==
    \/ SimplifySumOfProducts
    \/ \E survives \in BOOLEAN : SimplifyEmptiedSum(survives)

SpecSimplify == InitSimplify /\ [][NextSimplify]_vars

(***************************************************************************)
(* The grapher on its own: up to MaxCalls calls of addBasicBlock and        *)
(* updateRegion, in any order, on the blocks of a function and the          *)
(* statements of the pool.                                                  *)
(***************************************************************************)
MaxCalls == 3

InitGrapher ==
    /\ pc = "grapher"
    /\ \E f \in {h \in Functions : h.n = 2 /\ h.ninst = 1} : Constructed(<<f>>)

GrapherAddBasicBlock(bb) ==
    /\ pc = "grapher"
    /\ Len(nodeStorage) < MaxCalls
    /\ setGrapher(addBasicBlock(grapher, module[1], bb))
    /\ lastCall' = [op |-> "addBasicBlock", bb |-> bb, before |-> grapher,
                    returned |-> Len(pool) + 1]
    /\ UNCHANGED <<walk, module, fi, pc, err, astPerFunction, analysisVars, backNodes, worklist,
                   climbVars, folds, regionVars, simplifierVars>>

GrapherUpdateRegion(head, tail, node) ==
    /\ pc = "grapher"
    /\ Len(nodeStorage) < MaxCalls
    /\ setGrapher(updateRegion(grapher, head, tail, node))
    /\ lastCall' = [op |-> "updateRegion", bb |-> head, before |-> grapher,
                    returned |-> Null]
    /\ UNCHANGED <<walk, module, fi, pc, err, astPerFunction, analysisVars, backNodes, worklist,
                   climbVars, folds, regionVars, simplifierVars>>

NextGrapher ==
    \/ \E bb \in Blocks(module[1]) : GrapherAddBasicBlock(bb)
    \/ \E head \in Blocks(module[1]) : \E tail \in (Blocks(module[1]) \cup {Null}) \ {head} :
            \E node \in DOMAIN pool : GrapherUpdateRegion(head, tail, node)

SpecGrapher == InitGrapher /\ [][NextGrapher]_vars

(***************************************************************************)
(* Paths of the control-flow graph, for the statements below.               *)
(***************************************************************************)
\* The paths from block `from` that visit no block twice.
RECURSIVE extendPaths(_, _)
extendPaths(f, paths) ==
    LET longer == {Append(p, s) : p \in paths, s \in Blocks(f)}
        next == {p \in longer : /\ p[Len(p)] \in succSet(f, p[Len(p) - 1])
                                /\ p[Len(p)] \notin Range(SubSeq(p, 1, Len(p) - 1))}
    IN  IF next \subseteq paths THEN paths ELSE extendPaths(f, paths \cup next)

SimplePathsFrom(f, from) == extendPaths(f, {<<from>>})

Last(p) == p[Len(p)]

\* a is on every path from the entry block to b.
Dominates(f, a, b) == \A p \in SimplePathsFrom(f, 1) : Last(p) = b => a \in Range(p)

\* a is on every path from b to a block without successors.
PostDominates(f, a, b) ==
    \A p \in SimplePathsFrom(f, b) : Last(p) \in exitBlocks(f) => a \in Range(p)

\* The blocks reachable from entry along paths that do not pass through exit.
Interior(f, head, tail) ==
    {Last(p) : p \in {q \in SimplePathsFrom(f, head) : tail \notin Range(q)}}

RegionCondition(f, head, tail, b) ==
    Dominates(f, head, b) /\ (tail = Null \/ PostDominates(f, tail, b))

IsRegionPair(f, head, tail) ==
    \A b \in Interior(f, head, tail) : RegionCondition(f, head, tail, b)

\* b closes a cycle on some path from the entry block.
BackEdgeDestination(f, b) ==
    \E p \in SimplePathsFrom(f, 1) : b \in Range(p) /\ b \in succSet(f, Last(p))

\* runOnFunction is at work on module[fi].
InFunction == pc \in {"blocks", "climb", "isRegion", "region", "notRegion", "aborted"}

\* runOnFunction has returned from a non-empty function, module[fi - 1].
Finished == pc \in {"runOnFunction", "done"} /\ fi > 1 /\ module[fi - 1].n # 0
finishedFn == module[fi - 1]

(***************************************************************************)
(* C2.  isRegion(entry, exit) returns true exactly when every block         *)
(* reachable from entry without passing through exit is dominated by entry  *)
(* and, unless exit is null, post-dominated by exit; exit is never taken    *)
(* from toVisit; and the first block taken that violates the condition ends *)
(* the call with false.                                                     *)
(***************************************************************************)
IsRegionCharacterization ==
    /\ pc = "region" => IsRegionPair(fn, entry, exit)
    /\ pc = "notRegion" =>
            /\ ~IsRegionPair(fn, entry, exit)
            /\ ~RegionCondition(fn, entry, exit, Last(examined))
    /\ pc \in {"isRegion", "region", "notRegion"} =>
            /\ exit \notin Range(examined)
            /\ \A k \in 1..Len(examined) :
                    ~RegionCondition(fn, entry, exit, examined[k])
                        => pc = "notRegion" /\ k = Len(examined)

\* isRegion returned false, for an exit that post-dominates entry, after other
\* blocks had passed the test.
IsRegionRejectsLate ==
    /\ pc = "notRegion"
    /\ exit # Null
    /\ Len(examined) >= 2
    /\ PostDominates(fn, exit, entry)

(***************************************************************************)
(* C3.  Every (entry, exit) folded by runOnRegion or runOnLoop is a region: *)
(* entry dominates every block reachable from entry without crossing exit,  *)
(* and exit, when not null, post-dominates every such block.                *)
(***************************************************************************)
FoldsAreRegions ==
    InFunction => \A k \in 1..Len(folds) : IsRegionPair(fn, folds[k][2], folds[k][3])

\* A fold with a non-null exit over at least three blocks.
FoldedLargeRegion ==
    /\ InFunction
    /\ \E k \in 1..Len(folds) :
            /\ folds[k][3] # Null
            /\ Cardinality(Interior(fn, folds[k][2], folds[k][3])) >= 3

(***************************************************************************)
(* C6.  In one runOnFunction, runOnLoop is called for a block exactly at    *)
(* the first fold with that entry, and only when the block is a back-edge   *)
(* destination: so at most once per back-edge destination, never for        *)
(* another block, and every later fold with the same entry is a             *)
(* runOnRegion; backNodes holds the destinations not yet folded as loops.   *)
(***************************************************************************)
LoopOncePerBackEdgeDestination ==
    InFunction =>
        /\ \A k \in 1..Len(folds) :
                folds[k][1] = "runOnLoop"
                    <=> /\ BackEdgeDestination(fn, folds[k][2])
                        /\ \A j \in 1..(k - 1) : folds[j][2] # folds[k][2]
        /\ backNodes = {b \in Blocks(fn) : BackEdgeDestination(fn, b)}
                        \ {folds[k][2] : k \in 1..Len(folds)}

\* A loop header folded by runOnLoop and then again, larger, by runOnRegion.
LoopThenRegion ==
    /\ InFunction
    /\ \E j, k \in 1..Len(folds) :
            /\ j < k
            /\ folds[j][1] = "runOnLoop"
            /\ folds[k][1] = "runOnRegion"
            /\ folds[j][2] = folds[k][2]

(***************************************************************************)
(* C8.  When runOnFunction has returned from a non-empty function, every    *)
(* block reachable from the entry block is the entry of exactly one leaf    *)
(* node (exit = entry) of nodeStorage, and an unreachable block of none.    *)
(***************************************************************************)
leafNodes(b) ==
    {i \in 1..Len(nodeStorage) : nodeStorage[i].entry = b /\ nodeStorage[i].exit = b}

OneLeafPerReachableBlock ==
    Finished =>
        \A b \in Blocks(finishedFn) :
            Cardinality(leafNodes(b)) = IF b \in reachable(finishedFn) THEN 1 ELSE 0

\* runOnFunction returned from a function with an unreachable block and a
\* reachable block other than the entry block.
FinishedWithUnreachableBlock ==
    /\ Finished
    /\ reachable(finishedFn) # Blocks(finishedFn)
    /\ Cardinality(reachable(finishedFn)) >= 2

nodesWithEntry(b) == {i \in 1..Len(nodeStorage) : nodeStorage[i].entry = b}

Max(S) == CHOOSE x \in S : \A y \in S : y <= x

LookupReturnsLatestNode ==
    InFunction /\ pc # "aborted" =>
        /\ Len(nodeStorage) = (Len(post_order(fn)) - Len(worklist)) + Len(folds)
        /\ \A b \in Blocks(fn) :
                nodesWithEntry(b) # {} =>
                    getGraphNodeFromEntry(grapher, b) = Max(nodesWithEntry(b))

(***************************************************************************)
(* C4.  buildSumsOfProducts(astEntry, astExit) records, for every graph     *)
(* node reachable from astEntry without passing through astExit, one        *)
(* product per cycle-free path from astEntry to it: in path order,          *)
(* Value(c) for each conditional branch left through successor 0 and        *)
(* UnaryNot(Value(c)) for each left through successor 1, and nothing for an *)
(* unconditional branch or for the step from a folded node to its exit.     *)
(***************************************************************************)
\* The steps out of graph node n: where each leads and the term it adds.
graphSteps(n) ==
    LET node == nodeStorage[n]
        t == fn.term[node.entry]
    IN  IF hasExit(node)
        THEN <<[to |-> getGraphNodeFromEntry(grapher, node.exit), terms |-> <<>>]>>
        ELSE IF t[1] = "cbr"
        THEN <<[to |-> getGraphNodeFromEntry(grapher, t[2]),
                terms |-> <<<<"val", node.entry>>>>],
               [to |-> getGraphNodeFromEntry(grapher, t[3]),
                terms |-> <<<<"not", <<"val", node.entry>>>>>>]>>
        ELSE IF t[1] = "br"
        THEN <<[to |-> getGraphNodeFromEntry(grapher, t[2]), terms |-> <<>>]>>
        ELSE <<>>

\* The cycle-free paths from graph node `from` that stay clear of `avoid`:
\* the nodes of each, the step taken out of each node, and its product.
RECURSIVE extendGraphPaths(_, _)
extendGraphPaths(paths, avoid) ==
    LET valid == {q \in {[nodes |-> p.nodes, steps |-> Append(p.steps, k)] :
                            p \in paths, k \in 1..2} :
                    LET from == Last(q.nodes)
                        k == Last(q.steps)
                    IN  /\ k <= Len(graphSteps(from))
                        /\ graphSteps(from)[k].to \notin {Null, avoid}
                        /\ graphSteps(from)[k].to \notin Range(q.nodes)}
        more == {[nodes |-> Append(q.nodes,
                                   graphSteps(Last(q.nodes))[Last(q.steps)].to),
                  steps |-> q.steps,
                  product |-> (CHOOSE p \in paths :
                                    /\ p.nodes = q.nodes
                                    /\ p.steps = SubSeq(q.steps, 1, Len(q.steps) - 1)
                              ).product
                              \o graphSteps(Last(q.nodes))[Last(q.steps)].terms] :
                    q \in valid}
    IN  IF more \subseteq paths THEN paths ELSE extendGraphPaths(paths \cup more, avoid)

GraphPaths(from, avoid) ==
    IF from \in {Null, avoid} THEN {}
    ELSE extendGraphPaths({[nodes |-> <<from>>, steps |-> <<>>, product |-> <<>>]}, avoid)

\* The expressions a recorded product points to.
expressionsOf(product) == [i \in 1..Len(product) |-> product[i].e]

OneProductPerPath ==
    pc = "region" =>
        LET astEntry == getGraphNodeFromEntry(grapher, entry)
            astExit == getGraphNodeFromEntry(grapher, exit)
            reach == buildSumsOfProducts(grapher, fn, astEntry, astExit)
            paths == GraphPaths(astEntry, astExit)
            recorded(n) == IF nodeStorage[n].node \in DOMAIN reach.conds
                           THEN reach.conds[nodeStorage[n].node] ELSE <<>>
        IN  reach.ok =>
                /\ DOMAIN reach.conds = {nodeStorage[Last(p.nodes)].node : p \in paths}
                /\ \A p \in paths :
                        LET n == Last(p.nodes)
                        IN  Cardinality({k \in 1..Len(recorded(n)) :
                                            expressionsOf(recorded(n)[k]) = p.product})
                              = Cardinality({q \in paths : /\ Last(q.nodes) = n
                                                           /\ q.product = p.product})
                /\ \A n \in {Last(p.nodes) : p \in paths} :
                        Len(recorded(n))
                            = Cardinality({q \in paths : Last(q.nodes) = n})

\* A fold is about to be made whose region holds a node with two paths to it,
\* one of them through two conditional branches.
RegionWithTwoPaths ==
    /\ pc = "region"
    /\ \E p, q \in GraphPaths(getGraphNodeFromEntry(grapher, entry),
                             getGraphNodeFromEntry(grapher, exit)) :
            /\ p # q
            /\ Last(p.nodes) = Last(q.nodes)
            /\ Len(p.product) >= 2

(***************************************************************************)
(* Execution of a control-flow graph and of an AST.  A run is the sequence  *)
(* of blocks whose bodies it started, in order.  The predicate of a         *)
(* conditional branch gets its value when the last instruction of its block *)
(* has run: the next bit of `oracle`.  A run is cut when it asks for more   *)
(* bits than the oracle has or starts more than MaxSteps bodies.            *)
(***************************************************************************)
MaxBranches == 3
MaxSteps == 6

Oracles == [1..MaxBranches -> BOOLEAN]

startRun == [trace |-> <<>>, env |-> EmptyMap, bits |-> 0, status |-> "run"]

\* Instruction i of block b runs.
runInstruction(f, oracle, b, i, st) ==
    LET started == IF i = 1 THEN [st EXCEPT !.trace = Append(@, b)] ELSE st
    IN  IF i = 1 /\ Len(st.trace) >= MaxSteps THEN [st EXCEPT !.status = "cut"]
        ELSE IF i < numStatements(f, b) THEN started
        ELSE IF f.term[b][1] = "ret" THEN [started EXCEPT !.status = "return"]
        ELSE IF f.term[b][1] = "br" THEN started
        ELSE IF st.bits >= Len(oracle) THEN [started EXCEPT !.status = "cut"]
        ELSE [started EXCEPT !.env = mapPut(@, b, oracle[st.bits + 1]),
                             !.bits = @ + 1]

RECURSIVE runBlock(_, _, _, _, _)
runBlock(f, oracle, b, i, st) ==
    IF st.status # "run" \/ i > numStatements(f, b) THEN st
    ELSE runBlock(f, oracle, b, i + 1, runInstruction(f, oracle, b, i, st))

\* The run of the control-flow graph from block b.
RECURSIVE runCfg(_, _, _, _)
runCfg(f, oracle, b, st) ==
    LET after == runBlock(f, oracle, b, 1, st)
        t == f.term[b]
    IN  IF after.status # "run" THEN after
        ELSE IF t[1] = "br" THEN runCfg(f, oracle, t[2], after)
        ELSE runCfg(f, oracle, IF after.env[b] THEN t[2] ELSE t[3], after)

\* The value of a condition: "T", "F", or "U" when it reads the predicate of
\* a branch that has not run.
RECURSIVE valueOf(_, _)
valueOf(e, env) ==
    IF e[1] = "val" THEN (IF e[2] \notin DOMAIN env THEN "U"
                          ELSE IF env[e[2]] THEN "T" ELSE "F")
    ELSE IF e[1] = "not"
    THEN LET v == valueOf(e[2], env)
         IN  IF v = "T" THEN "F" ELSE IF v = "F" THEN "T" ELSE "U"
    ELSE IF e[1] = "and"
    THEN (IF valueOf(e[2], env) = "T" THEN valueOf(e[3], env) ELSE valueOf(e[2], env))
    ELSE IF e[1] = "or"
    THEN (IF valueOf(e[2], env) = "F" THEN valueOf(e[3], env) ELSE valueOf(e[2], env))
    ELSE "U"

\* The run of a statement of the pool.
RECURSIVE runStatement(_, _, _, _, _)
RECURSIVE runStatements(_, _, _, _, _, _)
RECURSIVE runLoop(_, _, _, _, _, _)
runStatement(f, oracle, pl, stmt, st) ==
    IF st.status # "run" THEN st
    ELSE IF stmt = breakNode THEN [st EXCEPT !.status = "break"]
    ELSE
        LET s == pl[stmt]
        IN  IF s[1] = "expr" THEN runInstruction(f, oracle, s[2], s[3], st)
            ELSE IF s[1] = "seq" THEN runStatements(f, oracle, pl, s[2], 1, st)
            ELSE IF s[1] = "if" THEN
                (IF valueOf(s[2], st.env) = "U" THEN [st EXCEPT !.status = "undefined"]
                 ELSE IF valueOf(s[2], st.env) = "T"
                 THEN runStatement(f, oracle, pl, s[3], st)
                 ELSE IF s[4] # Null THEN runStatement(f, oracle, pl, s[4], st)
                 ELSE st)
            ELSE runLoop(f, oracle, pl, s, st, MaxSteps + MaxBranches + 1)
runStatements(f, oracle, pl, stmts, i, st) ==
    IF st.status # "run" \/ i > Len(stmts) THEN st
    ELSE runStatements(f, oracle, pl, stmts, i + 1,
                       runStatement(f, oracle, pl, stmts[i], st))
\* `rounds` bounds the iterations of a loop whose body starts no block.
runLoop(f, oracle, pl, loop, st, rounds) ==
    IF rounds = 0 THEN [st EXCEPT !.status = "cut"]
    ELSE
        LET after == runStatement(f, oracle, pl, loop[3], st)
            again == IF isEndless(loop) THEN "T" ELSE valueOf(loop[2], after.env)
        IN  IF after.status = "break" THEN [after EXCEPT !.status = "run"]
            ELSE IF after.status # "run" THEN after
            ELSE IF again = "U" THEN [after EXCEPT !.status = "undefined"]
            ELSE IF again = "T" THEN runLoop(f, oracle, pl, loop, after, rounds - 1)
            ELSE after

\* What a run shows: the bodies started, and how the run ended.
observed(run) == [trace |-> run.trace, status |-> run.status]

(***************************************************************************)
(* C1.  For every outcome of the branch predicates, running the root AST    *)
(* that runOnFunction produced starts the block bodies in the same order,   *)
(* and as many times, as running the function from its entry block.         *)
(***************************************************************************)
AstRunsAsCfg ==
    Finished /\ finishedFn.ninst >= 1 =>
        \A oracle \in Oracles :
            observed(runStatement(finishedFn, oracle, pool, nodeByEntry[1], startRun))
                = observed(runCfg(finishedFn, oracle, 1, startRun))

(***************************************************************************)
(* C5.  The product of sums simplifySumOfProducts returns for a non-empty   *)
(* sum of products has, under every truth assignment of the predicates, the *)
(* value of the sum of products: the conjunction of the disjunctions equals *)
(* the disjunction of the conjunctions.  Stated for the sums whose products *)
(* all have a term, so that no reading of the empty product is involved.    *)
(***************************************************************************)
Assignments == [1..MaxAtoms -> BOOLEAN]

holds(e, v) == IF e[1] = "val" THEN v[e[2]] ELSE ~v[e[2][2]]

sumOfProductsValue(sum, v) ==
    \E i \in 1..Len(sum) : \A j \in 1..Len(sum[i]) : holds(sum[i][j].e, v)

productOfSumsValue(product, v) ==
    \A i \in 1..Len(product) : \E j \in 1..Len(product[i]) : holds(product[i][j].e, v)

SimplifyPreservesFunction ==
    pc = "simplified" /\ (\A i \in DOMAIN lastCall.argument : lastCall.argument[i] # <<>>) =>
        \A v \in Assignments :
            productOfSumsValue(productOfSums, v) = sumOfProductsValue(lastCall.argument, v)

(***************************************************************************)
(* C10.  addBasicBlock(bb) for a block that is already registered returns   *)
(* the statement registered for it and leaves nodeStorage, nodeByEntry and  *)
(* graphNodeByAstNode as they were.                                         *)
(***************************************************************************)
ReAddReturnsExisting ==
    pc = "grapher" /\ lastCall.op = "addBasicBlock"
                   /\ lastCall.bb \in DOMAIN lastCall.before.nodeByEntry =>
        /\ lastCall.returned = lastCall.before.nodeByEntry[lastCall.bb]
        /\ nodeStorage = lastCall.before.nodeStorage
        /\ nodeByEntry = lastCall.before.nodeByEntry
        /\ graphNodeByAstNode = lastCall.before.graphNodeByAstNode

(***************************************************************************)
(* GraphTraits<AstGraphNode> child iteration (ast_grapher.cpp 27-35 and     *)
(* 53-67): an iterator is a position in the successors of a block.          *)
(***************************************************************************)
\* child_begin(node): succ_begin(node->entry)
child_begin(g, f, node) == [block |-> g.nodeStorage[node].entry, bbIter |-> 1]

\* child_end(node): succ_end(node->entry)
child_end(g, f, node) ==
    [block |-> g.nodeStorage[node].entry,
     bbIter |-> Len(successors(f, g.nodeStorage[node].entry)) + 1]

\* AstGraphNodeIterator::operator++
iteratorIncrement(iter) == [iter EXCEPT !.bbIter = @ + 1]

\* AstGraphNodeIterator::operator*
iteratorDereference(g, f, iter) ==
    getGraphNodeFromEntry(g, successors(f, iter.block)[iter.bbIter])

\* The nodes a loop from child_begin(node) to child_end(node) yields.
RECURSIVE childrenBetween(_, _, _, _, _)
childrenBetween(g, f, iter, end, yielded) ==
    IF iter = end THEN yielded
    ELSE childrenBetween(g, f, iteratorIncrement(iter), end,
                         Append(yielded, iteratorDereference(g, f, iter)))

children(g, f, node) ==
    childrenBetween(g, f, child_begin(g, f, node), child_end(g, f, node), <<>>)

(***************************************************************************)
(* C11.  Child iteration of a graph node with a distinct exit yields the    *)
(* one node getGraphNodeFromEntry(exit), and of a node without one yields   *)
(* getGraphNodeFromEntry(s) for each successor s of its entry block, in     *)
(* successor order.  Stated for the nodes whose exit is a block.            *)
(***************************************************************************)
successorNodes(n) ==
    [i \in 1..Len(successors(fn, nodeStorage[n].entry)) |->
        getGraphNodeFromEntry(grapher, successors(fn, nodeStorage[n].entry)[i])]

ChildIterationFollowsExit ==
    InFunction /\ pc # "aborted" =>
        \A n \in 1..Len(nodeStorage) :
            nodeStorage[n].exit # Null =>
                children(grapher, fn, n) =
                    IF hasExit(nodeStorage[n])
                    THEN <<getGraphNodeFromEntry(grapher, nodeStorage[n].exit)>>
                    ELSE successorNodes(n)

(***************************************************************************)
(* ReachingConditions::build step by step (program_output.cpp 77-132).      *)
(* walk.frames is the call stack of build: each frame holds currentNode,    *)
(* the line the call is at ("call": 78, "true": 103, "false": 108,          *)
(* "last": 117) and its trueExpr.  The graph is the leaf nodes of a         *)
(* function's blocks, with or without one more node folding some block up   *)
(* to some exit; the walk starts at the node of any block and ends at the   *)
(* node of any block or at null.                                            *)
(***************************************************************************)
RECURSIVE addBasicBlocksFrom(_, _, _)
addBasicBlocksFrom(g, f, bb) ==
    IF bb > f.n THEN g ELSE addBasicBlocksFrom(addBasicBlock(g, f, bb), f, bb + 1)

leafGraph(f) == addBasicBlocksFrom(newGrapher(<<>>), f, 1)

foldedGraph(g, head, tail) ==
    updateRegion([g EXCEPT !.pool = Append(@, <<"seq", <<>>>>)], head, tail,
                 Len(g.pool) + 1)

BuildGraphs(f) ==
    {leafGraph(f)} \cup
    {foldedGraph(leafGraph(f), pair[1], pair[2]) :
        pair \in {q \in Blocks(f) \X (Blocks(f) \cup {Null}) : q[1] # q[2]}}

BuildFunctions == {f \in Functions : f.ninst = 0}

\* 130: vector<AstGraphNode*> visitStack { regionEnd }
unseededVisitStack(regionEnd) == <<>>

seededVisitStack(regionEnd) == <<regionEnd>>

frame(node) == [node |-> node, at |-> "call", trueExpr |-> NoExpr]

\* 129-131: buildSumsOfProducts has called build(regionStart, ...).
walkStarted(regionStart, regionEnd) ==
    [frames |-> <<frame(regionStart)>>,
     visitStack |-> seededVisitStack(regionEnd),
     conditionStack |-> <<>>,
     conditions |-> EmptyMap,
     np |-> 1,
     regionStart |-> regionStart,
     regionEnd |-> regionEnd]

InitBuild ==
    \E f \in BuildFunctions : \E g \in BuildGraphs(f) :
        \E from \in Blocks(f) : \E to \in Blocks(f) \cup {Null} :
            /\ pc = "build"
            /\ module = <<f>>
            /\ fi = 1
            /\ err = ""
            /\ pool = g.pool
            /\ nodeStorage = g.nodeStorage
            /\ nodeByEntry = g.nodeByEntry
            /\ graphNodeByAstNode = g.graphNodeByAstNode
            /\ astPerFunction = EmptyMap
            /\ domTree = NoTree
            /\ postDomTree = NoTree
            /\ backNodes = {}
            /\ worklist = <<>>
            /\ entry = Null
            /\ domNode = Null
            /\ successor = Null
            /\ exit = Null
            /\ folds = <<>>
            /\ toVisit = {}
            /\ visited = {}
            /\ examined = <<>>
            /\ sumOfProducts = <<>>
            /\ productOfSums = <<>>
            /\ lastCall = [op |-> "none"]
            /\ walk = walkStarted(getGraphNodeFromEntry(g, from),
                                  getGraphNodeFromEntry(g, to))

buildFrame == walk.frames[Len(walk.frames)]
buildCallers == SubSeq(walk.frames, 1, Len(walk.frames) - 1)
buildNode == nodeStorage[buildFrame.node]
dropLast(s) == SubSeq(s, 1, Len(s) - 1)

buildOthersUnchanged ==
    UNCHANGED <<module, fi, grapherVars, astPerFunction, analysisVars, backNodes,
                worklist, climbVars, folds, regionVars, simplifierVars, lastCall>>

\* A call of build returns to its caller, or to buildSumsOfProducts.
buildReturned(callers) == IF callers = <<>> THEN "built" ELSE "build"

\* 80-83: the node is on the visit stack.
BuildBackEdge ==
    /\ pc = "build"
    /\ buildFrame.at = "call"
    /\ buildFrame.node \in Range(walk.visitStack)
    /\ walk' = [walk EXCEPT !.frames = buildCallers]
    /\ pc' = buildReturned(buildCallers)
    /\ err' = err
    /\ buildOthersUnchanged

\* 85-86 with a null currentNode: currentNode->node is read through null.
BuildNullNode ==
    /\ pc = "build"
    /\ buildFrame.at = "call"
    /\ buildFrame.node \notin Range(walk.visitStack)
    /\ buildFrame.node = Null
    /\ walk' = [walk EXCEPT !.visitStack = Append(@, Null)]
    /\ abort("currentNode->node")
    /\ buildOthersUnchanged

\* The frames after lines 85-116 up to the next call of build, if any.
buildDescend(node) ==
    IF hasExit(node)
    THEN Append(buildCallers, [buildFrame EXCEPT !.at = "last"])
            \o <<frame(getGraphNodeFromEntry(grapher, node.exit))>>
    ELSE IF fn.term[node.entry][1] = "cbr"
    THEN Append(buildCallers,
                [buildFrame EXCEPT !.at = "true",
                                   !.trueExpr = valueExpression(walk.np, node.entry)])
            \o <<frame(getGraphNodeFromEntry(grapher, fn.term[node.entry][2]))>>
    ELSE IF fn.term[node.entry][1] = "br"
    THEN Append(buildCallers, [buildFrame EXCEPT !.at = "last"])
            \o <<frame(getGraphNodeFromEntry(grapher, fn.term[node.entry][2]))>>
    ELSE Append(buildCallers, [buildFrame EXCEPT !.at = "last"])

isConditional(node) == ~hasExit(node) /\ fn.term[node.entry][1] = "cbr"

\* 85-102 or 85-113: the node is pushed, the condition stack is recorded for
\* its statement, and the walk goes on to the node at its exit or to its
\* first successor.
BuildVisit ==
    /\ pc = "build"
    /\ buildFrame.at = "call"
    /\ buildFrame.node \notin Range(walk.visitStack)
    /\ buildFrame.node # Null
    /\ walk' = [walk EXCEPT
                  !.visitStack = Append(@, buildFrame.node),
                  !.conditions = conditionsPush(@, buildNode.node, walk.conditionStack),
                  !.conditionStack =
                        IF isConditional(buildNode)
                        THEN Append(@, valueExpression(walk.np, buildNode.entry))
                        ELSE @,
                  !.np = IF isConditional(buildNode) THEN @ + 1 ELSE @,
                  !.frames = buildDescend(buildNode)]
    /\ UNCHANGED <<pc, err>>
    /\ buildOthersUnchanged

\* 103-107: back from successor 0, on to successor 1 under the negation.
BuildFalseBranch ==
    /\ pc = "build"
    /\ buildFrame.at = "true"
    /\ walk' = [walk EXCEPT
                  !.conditionStack =
                        Append(dropLast(@), negationExpression(walk.np, buildFrame.trueExpr)),
                  !.np = @ + 1,
                  !.frames = Append(buildCallers, [buildFrame EXCEPT !.at = "false"])
                                \o <<frame(getGraphNodeFromEntry(
                                              grapher, fn.term[buildNode.entry][3]))>>]
    /\ UNCHANGED <<pc, err>>
    /\ buildOthersUnchanged

\* 108 and 117, or 117 alone: the call pops what it pushed and returns.
BuildReturn ==
    /\ pc = "build"
    /\ buildFrame.at \in {"false", "last"}
    /\ walk' = [walk EXCEPT
                  !.conditionStack = IF buildFrame.at = "false" THEN dropLast(@) ELSE @,
                  !.visitStack = dropLast(@),
                  !.frames = buildCallers]
    /\ pc' = buildReturned(buildCallers)
    /\ err' = err
    /\ buildOthersUnchanged

NextBuild ==
    \/ BuildBackEdge
    \/ BuildNullNode
    \/ BuildVisit
    \/ BuildFalseBranch
    \/ BuildReturn

SpecBuild == InitBuild /\ [][NextBuild]_vars /\ WF_vars(NextBuild)

(***************************************************************************)
(* C12.  ReachingConditions::build terminates on every graph, cyclic or     *)
(* not: every walk ends; no node is on the visit stack twice; a call for    *)
(* astExit returns at once, so the walk never goes past it; and no product  *)
(* is recorded for astExit, also when astExit is null.  The one walk that   *)
(* does not return is the one that reaches the end of the function (a null  *)
(* node) while astExit is a node.                                           *)
(***************************************************************************)
BuildWithinRegion ==
    pc \in {"build", "built", "aborted"} =>
        /\ \A i, j \in 1..Len(walk.visitStack) :
                walk.visitStack[i] = walk.visitStack[j] => i = j
        /\ \A k \in 1..Len(walk.frames) :
                walk.frames[k].node = walk.regionEnd
                    => k = Len(walk.frames) /\ walk.frames[k].at = "call"
        /\ DOMAIN walk.conditions \subseteq DOMAIN pool
        /\ walk.regionEnd # Null
                => nodeStorage[walk.regionEnd].node \notin DOMAIN walk.conditions
        /\ pc = "aborted" => walk.regionEnd # Null

BuildTerminates == []BuildWithinRegion /\ <>(pc \in {"built", "aborted"})

\* A walk to the end of the function has returned after visiting every node
\* of a function with a cycle.
BuiltAroundCycle ==
    /\ pc = "built"
    /\ walk.regionEnd = Null
    /\ \E b \in Blocks(fn) : BackEdgeDestination(fn, b)
    /\ Cardinality(DOMAIN walk.conditions) = fn.n

(***************************************************************************)
(* Functions with a terminator that is no BranchInst: a switch with a       *)
(* default destination and one case.  The pass is run on them as on any     *)
(* function.                                                                *)
(***************************************************************************)
SwitchTerminators(n) == {<<"switch", s, t>> : s \in 2..n, t \in 2..n}

SwitchFunctions ==
    {f \in UNION {[n : {n}, term : [1..n -> Terminators(n) \cup SwitchTerminators(n)],
                   ninst : 0..MaxInst] : n \in 1..MaxBlocks} :
        /\ isCanonical(f)
        /\ hasReturn(f)
        /\ \E b \in Blocks(f) : f.term[b][1] = "switch"}

InitSwitch ==
    /\ pc = "runOnModule"
    /\ \E m \in Modules \cup {<<f>> : f \in SwitchFunctions} : Constructed(m)

SpecSwitch == InitSwitch /\ [][Next]_vars

(***************************************************************************)
(* C13.  A run of runOnFunction whose reaching-conditions walk reaches an   *)
(* unfolded node of a block that ends with a switch is aborted.  Every      *)
(* reachable block is walked as an unfolded node before the function's root *)
(* is folded, so runOnFunction never returns from a function in which a     *)
(* block that ends with a switch is reachable.                              *)
(***************************************************************************)
UnsupportedTerminatorIsFatal ==
    Finished => \A b \in reachable(finishedFn) : finishedFn.term[b][1] # "switch"

(***************************************************************************)
(* recursivelySimplifyStatement on its own (program_output.cpp 399-514):    *)
(* called on any statement of at most MaxNodes nodes built from Sequence,   *)
(* IfElse, endless Loop, Break and Expression nodes, and then again on what *)
(* it returned.  A tree is <<"expr">>, <<"break">>, <<"seq", trees>>,       *)
(* <<"if", condition, tree, tree or <<"none">>>> or                         *)
(* <<"loop", condition, tree, position>>.                                   *)
(***************************************************************************)
MaxNodes == 6

TreeConditions ==
    {<<"val", 1>>, <<"not", <<"val", 1>>>>, <<"not", <<"not", <<"val", 1>>>>>>}

RECURSIVE TreesOfSize(_)
TreesOfSize(n) ==
    IF n = 1 THEN {<<"expr">>, <<"break">>, <<"seq", <<>>>>}
    ELSE {<<"seq", <<a>>>> : a \in TreesOfSize(n - 1)}
        \cup UNION {{<<"seq", <<p[1], p[2]>>>> : p \in TreesOfSize(k) \X TreesOfSize(n - 1 - k)} :
                        k \in 1..(n - 2)}
        \cup {<<"if", p[1], p[2], <<"none">>>> : p \in TreeConditions \X TreesOfSize(n - 1)}
        \cup UNION {{<<"if", p[1], p[2], p[3]>> :
                         p \in TreeConditions \X TreesOfSize(k) \X TreesOfSize(n - 1 - k)} :
                        k \in 1..(n - 2)}
        \cup {<<"loop", NoExpr, a, "Endless">> : a \in TreesOfSize(n - 1)}

\* The pool with the nodes of a tree allocated, and r, the address of its root.
RECURSIVE allocateTree(_, _)
RECURSIVE allocateTrees(_, _, _)
allocateTree(pl, tree) ==
    IF tree[1] = "break" THEN [pool |-> pl, r |-> breakNode]
    ELSE IF tree[1] = "none" THEN [pool |-> pl, r |-> Null]
    ELSE IF tree[1] = "expr"
    THEN [pool |-> Append(pl, <<"expr", 1, 1>>), r |-> Len(pl) + 1]
    ELSE IF tree[1] = "seq"
    THEN LET done == allocateTrees([pool |-> pl, r |-> <<>>], tree[2], 1)
         IN  [pool |-> Append(done.pool, <<"seq", done.r>>), r |-> Len(done.pool) + 1]
    ELSE IF tree[1] = "if"
    THEN LET done == allocateTrees([pool |-> pl, r |-> <<>>], <<tree[3], tree[4]>>, 1)
         IN  [pool |-> Append(done.pool, <<"if", tree[2], done.r[1], done.r[2]>>),
              r |-> Len(done.pool) + 1]
    ELSE LET done == allocateTree(pl, tree[3])
         IN  [pool |-> Append(done.pool, <<"loop", tree[2], done.r, tree[4]>>),
              r |-> Len(done.pool) + 1]
allocateTrees(st, trees, i) ==
    IF i > Len(trees) THEN st
    ELSE allocateTrees([pool |-> allocateTree(st.pool, trees[i]).pool,
                        r |-> Append(st.r, allocateTree(st.pool, trees[i]).r)],
                       trees, i + 1)

\* The tree of a statement of the pool.
RECURSIVE treeOf(_, _)
treeOf(pl, stmt) ==
    IF stmt = breakNode THEN <<"break">>
    ELSE IF stmt = Null THEN <<"none">>
    ELSE IF pl[stmt][1] = "expr" THEN <<"expr">>
    ELSE IF pl[stmt][1] = "seq"
    THEN <<"seq", [i \in 1..Len(pl[stmt][2]) |-> treeOf(pl, pl[stmt][2][i])]>>
    ELSE IF pl[stmt][1] = "if"
    THEN <<"if", pl[stmt][2], treeOf(pl, pl[stmt][3]), treeOf(pl, pl[stmt][4])>>
    ELSE <<"loop", pl[stmt][2], treeOf(pl, pl[stmt][3]), pl[stmt][4]>>

\* The members the simplifier does not touch, as after construction.
passAtRest ==
    /\ module = <<>>
    /\ fi = 0
    /\ err = ""
    /\ nodeStorage = <<>>
    /\ nodeByEntry = EmptyMap
    /\ graphNodeByAstNode = EmptyMap
    /\ astPerFunction = EmptyMap
    /\ domTree = NoTree
    /\ postDomTree = NoTree
    /\ backNodes = {}
    /\ worklist = <<>>
    /\ entry = Null
    /\ domNode = Null
    /\ successor = Null
    /\ exit = Null
    /\ folds = <<>>
    /\ toVisit = {}
    /\ visited = {}
    /\ examined = <<>>
    /\ sumOfProducts = <<>>
    /\ productOfSums = <<>>
    /\ walk = NoWalk

\* The call is about to be made on the tree, allocated in an empty pool.
startOn(tree) ==
    /\ pool = allocateTree(<<>>, tree).pool
    /\ lastCall = [op |-> "none", calls |-> 0, returned |-> allocateTree(<<>>, tree).r]

\* Every tree of at most MaxNodes nodes, by the kind of its root.
InitAst ==
    /\ pc = "ast"
    /\ passAtRest
    /\ \E n \in 1..MaxNodes :
        \/ n = 1 /\ \E tree \in TreesOfSize(1) : startOn(tree)
        \/ n > 1 /\ \E a \in TreesOfSize(n - 1) :
                \/ startOn(<<"seq", <<a>>>>)
                \/ startOn(<<"loop", NoExpr, a, "Endless">>)
                \/ \E c \in TreeConditions : startOn(<<"if", c, a, <<"none">>>>)
        \/ \E k \in 1..(n - 2) : \E a \in TreesOfSize(k), b \in TreesOfSize(n - 1 - k) :
                \/ startOn(<<"seq", <<a, b>>>>)
                \/ \E c \in TreeConditions : startOn(<<"if", c, a, b>>)

astUnchanged ==
    UNCHANGED <<module, fi, nodeStorage, nodeByEntry, graphNodeByAstNode, astPerFunction,
                analysisVars, backNodes, worklist, climbVars, folds, regionVars,
                simplifierVars, walk>>

simplifiedStatement(done) ==
    /\ pool' = done.pool
    /\ lastCall' = [op |-> "recursivelySimplifyStatement", calls |-> lastCall.calls + 1,
                    argument |-> lastCall.returned, before |-> pool,
                    returned |-> done.r]
    /\ IF done.err # "" THEN abort(done.err) ELSE UNCHANGED <<pc, err>>

\* recursivelySimplifyStatement(pool, statement), first on the statement and
\* then on what the call before returned.
SimplifyStatement ==
    /\ pc = "ast"
    /\ lastCall.calls < 2
    /\ simplifiedStatement(recursivelySimplifyStatement(pool, lastCall.returned))
    /\ astUnchanged

NextAst == SimplifyStatement

SpecAst == InitAst /\ [][NextAst]_vars

(***************************************************************************)
(* C14.  recursivelySimplifyStatement is idempotent: simplifying what a     *)
(* call returned returns a statement with the same tree.                    *)
(***************************************************************************)
SimplifyIsIdempotent ==
    pc = "ast" /\ lastCall.calls = 2 =>
        treeOf(pool, lastCall.returned) = treeOf(lastCall.before, lastCall.argument)

\* Some IfElse of the statement, at any depth, has an else branch and a
\* condition that is a logical negation.
RECURSIVE hasNegatedIfElse(_, _)
hasNegatedIfElse(pl, stmt) ==
    IF isType(pl, stmt, "seq")
    THEN \E i \in 1..Len(pl[stmt][2]) : hasNegatedIfElse(pl, pl[stmt][2][i])
    ELSE IF isType(pl, stmt, "if")
    THEN \/ isNegation(pl[stmt][2]) /\ pl[stmt][4] # Null
         \/ hasNegatedIfElse(pl, pl[stmt][3])
         \/ hasNegatedIfElse(pl, pl[stmt][4])
    ELSE IF isType(pl, stmt, "loop") THEN hasNegatedIfElse(pl, pl[stmt][3])
    ELSE FALSE

(***************************************************************************)
(* C15.  The statement recursivelySimplifyStatement returns has no IfElse,  *)
(* at any depth, with an else branch and a negated condition.               *)
(***************************************************************************)
NoNegatedIfElse ==
    pc = "ast" /\ lastCall.calls >= 1 => ~hasNegatedIfElse(pool, lastCall.returned)

\* The same of every AST in the grapher while a function is structurized:
\* those registered by runOnRegion and runOnLoop, and the blocks' own.
RegisteredAstsHaveNoNegatedIfElse ==
    \A i \in 1..Len(nodeStorage) : ~hasNegatedIfElse(pool, nodeStorage[i].node)

\* A statement with a negated IfElse with else was simplified.
SimplifiedNegatedIfElse ==
    /\ pc = "ast"
    /\ lastCall.calls = 1
    /\ hasNegatedIfElse(lastCall.before, lastCall.argument)
    /\ ~hasNegatedIfElse(pool, lastCall.returned)

\* The statement is `if (..) break` without an else.
isBreakIf(pl, stmt) ==
    isType(pl, stmt, "if") /\ pl[stmt][3] = breakNode /\ pl[stmt][4] = Null

(***************************************************************************)
(* C16.  A loop recursivelySimplifyLoop received endless and returns        *)
(* PostTested has a Sequence for body, and the last statement of that       *)
(* Sequence is not an `if (..) break` without else.                         *)
(***************************************************************************)
PostTestedBodyHasNoTrailingBreak ==
    /\ pc = "ast"
    /\ lastCall.calls = 1
    /\ isType(lastCall.before, lastCall.argument, "loop")
    /\ isEndless(lastCall.before[lastCall.argument])
    /\ pool[lastCall.returned][4] = "PostTested"
    => /\ isType(pool, pool[lastCall.returned][3], "seq")
       /\ LET stmts == statementsOf(pool, pool[lastCall.returned][3])
          IN  Len(stmts) > 0 => ~isBreakIf(pool, stmts[Len(stmts)])

\* The statements met when the statement is walked from its root, one entry
\* for each parent position they are reached through; the walk goes at most
\* fuel statements deep.
RECURSIVE occurrences(_, _, _)
RECURSIVE occurrencesOfAll(_, _, _, _)
occurrences(pl, stmt, fuel) ==
    IF stmt \notin DOMAIN pl \/ fuel = 0 THEN <<>>
    ELSE <<stmt>> \o occurrencesOfAll(pl,
                        IF pl[stmt][1] = "seq" THEN pl[stmt][2]
                        ELSE IF pl[stmt][1] = "if" THEN <<pl[stmt][3], pl[stmt][4]>>
                        ELSE IF pl[stmt][1] = "loop" THEN <<pl[stmt][3]>>
                        ELSE <<>>,
                        1, fuel - 1)
occurrencesOfAll(pl, stmts, i, fuel) ==
    IF i > Len(stmts) THEN <<>>
    ELSE occurrences(pl, stmts[i], fuel) \o occurrencesOfAll(pl, stmts, i + 1, fuel)

\* No statement is met twice, and no two statements met are the Expression
\* statement of the same instruction.
isTree(pl, met) ==
    \A i, j \in 1..Len(met) :
        i # j => met[i] # met[j] /\ (pl[met[i]][1] = "expr" => pl[met[i]] # pl[met[j]])

(***************************************************************************)
(* C17.  When runOnFunction has returned, the function's root AST is a      *)
(* tree: no statement is reachable from the root through two parent         *)
(* positions, and the statement of an instruction of a block occurs at most *)
(* once.                                                                    *)
(***************************************************************************)
RootAstIsTree ==
    Finished => isTree(pool, occurrences(pool, nodeByEntry[1], Len(pool) + 1))

\* The diamond: A: br c, T, E; T -> J; E -> J; J: ret.
DiamondTerm == <<<<"cbr", 2, 3>>, <<"br", 4>>, <<"br", 4>>, <<"ret">>>>

\* The Expression statements of block b, in instruction order.
blockLeaves(f, b) == [i \in 1..numStatements(f, b) |-> <<"expr", b, i>>]

\* The Expression statements a statement consists of, when it is one or a
\* Sequence of them.
leavesOf(pl, stmt) ==
    IF isType(pl, stmt, "expr") THEN <<pl[stmt]>>
    ELSE IF isType(pl, stmt, "seq")
    THEN [i \in 1..Len(pl[stmt][2]) |->
            IF isType(pl, pl[stmt][2][i], "expr") THEN pl[pl[stmt][2][i]] ELSE <<"other">>]
    ELSE <<<<"other">>>>

\* The statement is a Sequence of: the leaves of A, an IfElse on A's
\* condition with the leaves of T and of E for branches, the leaves of J.
isDiamondAst(pl, f, root) ==
    /\ isType(pl, root, "seq")
    /\ LET stmts == pl[root][2]
           nA == numStatements(f, 1)
           nJ == numStatements(f, 4)
       IN  /\ Len(stmts) = nA + 1 + nJ
           /\ \A i \in 1..nA : pl[stmts[i]] = <<"expr", 1, i>>
           /\ \A i \in 1..nJ : pl[stmts[nA + 1 + i]] = <<"expr", 4, i>>
           /\ isType(pl, stmts[nA + 1], "if")
           /\ pl[stmts[nA + 1]][2] = <<"val", 1>>
           /\ leavesOf(pl, pl[stmts[nA + 1]][3]) = blockLeaves(f, 2)
           /\ pl[stmts[nA + 1]][4] # Null
           /\ leavesOf(pl, pl[stmts[nA + 1]][4]) = blockLeaves(f, 3)

(***************************************************************************)
(* C18.  For the diamond A: br c, T, E; T -> J; E -> J; J: ret,             *)
(* runOnFunction returns with a root made of A's statements, one IfElse on  *)
(* c, not negated, with T's statements for then-branch and E's for          *)
(* else-branch, and J's statements; there is no Break and no Loop in it.    *)
(***************************************************************************)
DiamondIsIfElse ==
    Len(module) = 1 /\ module[1].term = DiamondTerm =>
        /\ pc # "aborted"
        /\ Finished =>
            /\ isDiamondAst(pool, finishedFn, nodeByEntry[1])
            /\ \A s \in Range(occurrences(pool, nodeByEntry[1], Len(pool) + 1)) :
                    /\ pool[s][1] # "loop"
                    /\ pool[s][1] = "if" => breakNode \notin {pool[s][3], pool[s][4]}
                    /\ pool[s][1] = "seq" => breakNode \notin Range(pool[s][2])

\* runOnFunction returned from the diamond with an instruction in each block.
FinishedDiamond ==
    /\ Finished
    /\ finishedFn.term = DiamondTerm
    /\ finishedFn.ninst = 1

\* Block b branches back to itself on its condition and leaves otherwise.
isSelfLoop(f, b) ==
    f.term[b][1] = "cbr" /\ f.term[b][2] = b /\ f.term[b][3] # b

\* The statement holds a Break, at any depth outside an inner loop.
RECURSIVE hasBreak(_, _)
hasBreak(pl, stmt) ==
    IF stmt = breakNode THEN TRUE
    ELSE IF isType(pl, stmt, "seq")
    THEN \E i \in 1..Len(pl[stmt][2]) : hasBreak(pl, pl[stmt][2][i])
    ELSE IF isType(pl, stmt, "if")
    THEN hasBreak(pl, pl[stmt][3]) \/ hasBreak(pl, pl[stmt][4])
    ELSE FALSE

\* The loop can be left: it has a condition, or a Break in its body.
hasExplicitExit(pl, loop) ==
    IF isEndless(pl[loop]) THEN hasBreak(pl, pl[loop][3]) ELSE pl[loop][2] # NoExpr

(***************************************************************************)
(* C19.  The Loop runOnLoop registers for a block that branches back to     *)
(* itself on c and leaves otherwise has an explicit exit: it is endless     *)
(* with a Break in its body, or it has a loop condition.                    *)
(***************************************************************************)
SelfLoopHasExit ==
    InFunction /\ pc # "aborted" =>
        \A i \in 1..Len(nodeStorage) :
            /\ isSelfLoop(fn, nodeStorage[i].entry)
            /\ nodeStorage[i].exit = fn.term[nodeStorage[i].entry][3]
            /\ isType(pool, nodeStorage[i].node, "loop")
            => hasExplicitExit(pool, nodeStorage[i].node)

(***************************************************************************)
(* C20.  For a function of a single basic block, runOnFunction returns with *)
(* a root that is a Sequence of one Expression statement for each           *)
(* instruction of the block that is no branch and no switch, in instruction *)
(* order.                                                                   *)
(***************************************************************************)
SingleBlockIsSequence ==
    Finished /\ finishedFn.n = 1 =>
        /\ isType(pool, nodeByEntry[1], "seq")
        /\ [i \in 1..Len(pool[nodeByEntry[1]][2]) |-> pool[pool[nodeByEntry[1]][2][i]]]
               = blockLeaves(finishedFn, 1)

(***************************************************************************)
(* C21.  While runOnFunction climbs the post-dominator tree from a block,   *)
(* the lookup getGraphNodeFromEntry(domNode->getBlock()) finds a graph node *)
(* at every post-dominator the climb reaches.                               *)
(***************************************************************************)
ClimbFindsGraphNode ==
    pc = "climb" /\ domNode # Null => climbGraphNode # Null

\* The IfElse statements a guard is merged into while structurizeRegion
\* places the nodes of a region: placeGuard makes a new IfElse (two
\* allocations) or merges into the last statement of the body it is at.
mergedByGuard(st, next) ==
    IF Len(next.pool) = Len(st.pool) + 2 THEN {}
    ELSE {statementsOf(st.pool, st.body)[Len(statementsOf(st.pool, st.body))]}

RECURSIVE mergedByGuards(_, _, _)
mergedByGuardsFrom(st, next, sums, k) ==
    mergedByGuard(st, next) \cup mergedByGuards(next, sums, k + 1)
mergedByGuards(st, sums, k) ==
    IF st.err # "" \/ k > Len(sums) THEN {}
    ELSE mergedByGuardsFrom(st, placeGuard(st, sums[k]), sums, k)

RECURSIVE mergedByNodes(_, _, _, _, _)
mergedByNode(st, simplified, conditions, sequence, nodes, k) ==
    IF simplified.undefined THEN {}
    ELSE mergedByGuards([err |-> "", pool |-> st.pool, body |-> sequence],
                        simplified.productOfSums, 1)
         \cup mergedByNodes(structurizeNode(st, sequence, nodes[k], simplified),
                            conditions, sequence, nodes, k + 1)
mergedByNodes(st, conditions, sequence, nodes, k) ==
    IF st.err # "" \/ k > Len(nodes) \/ nodes[k] \notin DOMAIN conditions THEN {}
    ELSE mergedByNode(st, simplifySumOfProducts(conditions[nodes[k]]),
                      conditions, sequence, nodes, k)

mergedByOrdered(g, reach, order) ==
    IF ~reach.ok \/ ~order.ok THEN {}
    ELSE mergedByNodes([err |-> "", pool |-> Append(g.pool, <<"seq", <<>>>>)],
                       reach.conds, Len(g.pool) + 1, order.nodes, 1)

mergedByRegion(g, f, head, tail) ==
    mergedByOrdered(g,
        buildSumsOfProducts(g, f, getGraphNodeFromEntry(g, head), getGraphNodeFromEntry(g, tail)),
        reversePostOrder(g, f, getGraphNodeFromEntry(g, head), getGraphNodeFromEntry(g, tail)))

(***************************************************************************)
(* C22.  In structurizeRegion, when a guard is merged into the last IfElse  *)
(* of the current sequence, the branch chosen for the insertion (the        *)
(* then-branch, or the else-branch there is) is a Sequence: neither cast    *)
(* of lines 577 and 582 fails, and the IfElse merged into was made by this  *)
(* call, it is not a statement of an earlier fold.                          *)
(***************************************************************************)
MergedGuardBodyIsSequence ==
    /\ err \notin {"cast<SequenceNode>(conditional->ifBody)",
                   "cast_or_null<SequenceNode>(conditional->elseBody)"}
    /\ pc = "region" =>
        \A conditional \in mergedByRegion(grapher, fn, entry, exit) :
            conditional > Len(pool)

\* A region is about to be folded in which a guard is merged into the
\* then-branch of an IfElse, which gets a second statement.
RegionWithMergedGuards ==
    /\ pc = "region"
    /\ \E s \in mergedByRegion(grapher, fn, entry, exit) :
        LET done == structurizeRegion(grapher, fn, entry, exit)
        IN  /\ done.err = ""
            /\ Len(statementsOf(done.pool, done.pool[s][3])) >= 2

(***************************************************************************)
(* C23.  When recursivelySimplifyLoop looks at an endless loop whose        *)
(* simplified body is a Sequence, the Sequence has a statement: the         *)
(* assertion of line 470 holds for every loop runOnLoop builds.             *)
(***************************************************************************)
LoopBodyHasStatement ==
    err # "assert(lastIndex > 0)"

(***************************************************************************)
(* C24.  In simplifySumOfProducts, for an input with at least one product,  *)
(* a product is left after the common terms are factored out and the empty  *)
(* products erased, so that line 300 reads the front of a list that is not  *)
(* empty.  Stated for the inputs whose products all have a term.            *)
(***************************************************************************)
ProductLeftAfterFactoring ==
    /\ lastCall.op = "simplifySumOfProducts"
    /\ Len(lastCall.argument) >= 1
    /\ \A i \in DOMAIN lastCall.argument : lastCall.argument[i] # <<>>
    => Len(sumOfProducts) >= 1

====
